---- MODULE Spec2Model ----
(***************************************************************************)
(* Model of digitalocean-dyn-dns.                                          *)
(*                                                                         *)
(*   SpecPage  the two paginated traversals of DigitalOceanApiClient       *)
(*             (digitalocean/api.rs), one loop iteration per step, against *)
(*             a server holding a finite chain of pages.                   *)
(*   Spec      the program of main.rs: one invocation of the `dns`         *)
(*             subcommand (run_dns) or of the `firewall` subcommand        *)
(*             (build_firewall_args, then update_firewall), one client     *)
(*             call per step, against a remote account.                    *)
(***************************************************************************)
EXTENDS Integers, Sequences, FiniteSets, TLC

(***************************************************************************)
(* Bounds of the model.                                                    *)
(***************************************************************************)
MaxPages == 3
MaxItems == 2

(***************************************************************************)
(* The state: the traversal's, the program's, the DNS run's and the        *)
(* firewall run's.                                                         *)
(***************************************************************************)
VARIABLES
    cmd,        \* which part of the program this behaviour runs
    chain,      \* the server's pages: [items, links]
    op,         \* the traversal called
    name,       \* get_object_by_name's `name`
    url,        \* local `url`
    exit,       \* local `exit`
    obj,        \* local `obj` of get_object_by_name
    objects,    \* local `objects` of get_all_objects
    requests,   \* the GET requests sent so far, in order
    ret         \* the traversal's return value

pageVars == <<chain, op, name, url, exit, obj, objects, requests, ret>>

VARIABLES
    args,       \* the parsed command line (cli::Args)
    run,        \* number of the current invocation of the program
    pc,         \* position of the current invocation
    calls,      \* client calls made so far, with the HTTP request each sent
    result,     \* what run_dns / the firewall run of the invocation returned
    before,     \* the remote account as each invocation found it (history)
    domains,    \* remote: the account's domains
    zone,       \* remote: the domain's records of the requested type
    faithful,   \* remote: whether a DNS write stores and echoes the requested data
    record,     \* run_dns: the record get_record returned
    log         \* the info! lines of run_dns and the DNS client, with what they format

mainVars == <<args, run, pc, calls, result, before>>
dnsVars == <<domains, zone, faithful, record, log>>

VARIABLES
    firewalls,      \* remote: the account's firewalls
    droplets,       \* remote: the account's droplets
    firewall,       \* build_firewall_args: the firewall get_firewall returned
    ids,            \* build_firewall_args: the three resolved id lists
    replacement,    \* the (old rule, new rule) pair handed to update_firewall
    meddled         \* remote: changes another API client made to the firewall

fwVars == <<firewalls, droplets, firewall, ids, replacement, meddled>>

(***************************************************************************)
(* Rust's Option and Result.                                               *)
(***************************************************************************)
None == [some |-> FALSE]
Some(v) == [some |-> TRUE, val |-> v]
IsSome(o) == o.some
IsNone(o) == ~o.some

Running == [status |-> "running"]
Ok(v) == [status |-> "ok", value |-> v]
Err(e) == [status |-> "err", error |-> e]
Panic(m) == [status |-> "panic", message |-> m]

RECURSIVE SeqsUpTo(_, _)
SeqsUpTo(S, n) ==
    IF n = 0 THEN {<<>>}
    ELSE LET shorter == SeqsUpTo(S, n - 1)
         IN  shorter \cup {Append(s, x) : s \in {t \in shorter : Len(t) = n - 1}, x \in S}

\* Number of positions of s holding x.
Count(s, x) == Cardinality({i \in 1..Len(s) : s[i] = x})

\* Vec::contains
Contains(s, x) == \E i \in 1..Len(s) : s[i] = x

(***************************************************************************)
(* digitalocean/api.rs: the paginated traversals.                          *)
(*                                                                         *)
(* The server holds pages 1..Len(chain); a URL is the number of the page   *)
(* it addresses.  An item carries the name the predicate looks at and an   *)
(* id that tells items of the same name apart.                             *)
(***************************************************************************)
ItemNames == {"a", "b"}

\* struct Links / struct Pages: only `next` is consumed.
Links(pages) == [pages |-> pages]
Pages(next) == [next |-> next]

\* links.pages.is_some() && links.pages.clone().unwrap().next.is_some()
HasNext(links) == IsSome(links.pages) /\ IsSome(links.pages.val.next)
NextUrl(links) == links.pages.val.next.val

\* The ways a page can say that it is the last one.
LastLinks == {Links(None), Links(Some(Pages(None)))}

\* Items of page j: names in the given order, ids unique over the chain.
PageItems(j, names) == [i \in 1..Len(names) |-> [name |-> names[i], id |-> 10 * j + i]]

\* The chains of n pages: page j links to page j + 1, page n to nothing.
Chains(n) ==
    { [j \in 1..n |->
          [items |-> PageItems(j, names[j]),
           links |-> IF j < n THEN Links(Some(Pages(Some(j + 1)))) ELSE last]] :
      names \in [1..n -> SeqsUpTo(ItemNames, MaxItems)], last \in LastLinks }

\* name_checker of the typed clients: |t, name| t.name == *name
NameChecker(v, n) == v.name = n

\* Iterator::find over one page's items.
RECURSIVE FindFrom(_, _, _)
FindFrom(items, n, i) ==
    IF i > Len(items) THEN None
    ELSE IF NameChecker(items[i], n) THEN Some(items[i])
    ELSE FindFrom(items, n, i + 1)
Find(items, n) == FindFrom(items, n, 1)

IdlePage ==
    /\ chain = <<>>
    /\ op = "none"
    /\ name = ""
    /\ url = 0
    /\ exit = TRUE
    /\ obj = None
    /\ objects = <<>>
    /\ requests = <<>>
    /\ ret = Running

InitPage ==
    /\ cmd = "page"
    /\ \E n \in 1..MaxPages : chain \in Chains(n)
    /\ op \in {"get_all_objects", "get_object_by_name", "get_domain"}
    /\ name \in ItemNames
    /\ url = 1
    /\ exit = FALSE
    /\ obj = None
    /\ objects = <<>>
    /\ requests = <<>>
    /\ ret = Running

\* Variant of GetAllObjectsLoop: the page's items replace `objects` instead
\* of extending it.
GetAllObjectsLoop_Overwrite ==
    /\ cmd = "page" /\ op = "get_all_objects"
    /\ ret = Running /\ ~exit
    /\ LET resp == chain[url]
           links == resp.links
       IN  /\ requests' = Append(requests, url)
           /\ objects' = resp.items
           /\ IF HasNext(links)
              THEN url' = NextUrl(links) /\ exit' = exit
              ELSE exit' = TRUE /\ url' = url
    /\ UNCHANGED <<cmd, chain, op, name, obj, ret, mainVars, dnsVars, fwVars>>

\* Variant of GetAllObjectsLoop: the next link is not followed, the loop
\* goes on with the url it has.
GetAllObjectsLoop_SamePage ==
    /\ cmd = "page" /\ op = "get_all_objects"
    /\ ret = Running /\ ~exit
    /\ LET resp == chain[url]
           links == resp.links
       IN  /\ requests' = Append(requests, url)
           /\ objects' = objects \o resp.items
           /\ IF HasNext(links)
              THEN url' = url /\ exit' = exit
              ELSE exit' = TRUE /\ url' = url
    /\ UNCHANGED <<cmd, chain, op, name, obj, ret, mainVars, dnsVars, fwVars>>

\* One iteration of get_all_objects' loop whose GET succeeds.
GetAllObjectsLoop ==
    /\ cmd = "page" /\ op = "get_all_objects"
    /\ ret = Running /\ ~exit
    /\ LET resp == chain[url]
           links == resp.links
       IN  /\ requests' = Append(requests, url)
           /\ objects' = objects \o resp.items
           /\ IF HasNext(links)
              THEN url' = NextUrl(links) /\ exit' = exit
              ELSE exit' = TRUE /\ url' = url
    /\ UNCHANGED <<cmd, chain, op, name, obj, ret, mainVars, dnsVars, fwVars>>

\* Ok(objects)
GetAllObjectsReturn ==
    /\ cmd = "page" /\ op = "get_all_objects"
    /\ ret = Running /\ exit
    /\ ret' = Ok(objects)
    /\ UNCHANGED <<cmd, chain, op, name, url, exit, obj, objects, requests, mainVars, dnsVars, fwVars>>

\* Variant of GetObjectByNameLoop: a match does not end the loop while the
\* page has a next link.
GetObjectByNameLoop_NoEarlyExit ==
    /\ cmd = "page" /\ op = "get_object_by_name"
    /\ ret = Running /\ ~exit
    /\ LET resp == chain[url]
           links == resp.links
           found == Find(resp.items, name)
       IN  /\ requests' = Append(requests, url)
           /\ obj' = IF IsSome(found) THEN found ELSE obj
           /\ IF HasNext(links) THEN url' = NextUrl(links) /\ exit' = exit
              ELSE exit' = TRUE /\ url' = url
    /\ UNCHANGED <<cmd, chain, op, name, objects, ret, mainVars, dnsVars, fwVars>>

\* Variant of GetObjectByNameLoop: the page's last matching item is taken.
GetObjectByNameLoop_LastInPage ==
    /\ cmd = "page" /\ op = "get_object_by_name"
    /\ ret = Running /\ ~exit
    /\ LET resp == chain[url]
           links == resp.links
           at == {i \in 1..Len(resp.items) : NameChecker(resp.items[i], name)}
           found == IF at = {} THEN None
                    ELSE Some(resp.items[CHOOSE i \in at : \A j \in at : j <= i])
       IN  /\ requests' = Append(requests, url)
           /\ obj' = found
           /\ IF IsSome(found) THEN exit' = TRUE /\ url' = url
              ELSE IF HasNext(links) THEN url' = NextUrl(links) /\ exit' = exit
              ELSE exit' = TRUE /\ url' = url
    /\ UNCHANGED <<cmd, chain, op, name, objects, ret, mainVars, dnsVars, fwVars>>

\* One iteration of get_object_by_name's loop whose GET succeeds.
GetObjectByNameLoop ==
    /\ cmd = "page" /\ op = "get_object_by_name"
    /\ ret = Running /\ ~exit
    /\ LET resp == chain[url]
           links == resp.links
           found == Find(resp.items, name)
       IN  /\ requests' = Append(requests, url)
           /\ obj' = found
           /\ IF IsSome(found) THEN exit' = TRUE /\ url' = url
              ELSE IF HasNext(links) THEN url' = NextUrl(links) /\ exit' = exit
              ELSE exit' = TRUE /\ url' = url
    /\ UNCHANGED <<cmd, chain, op, name, objects, ret, mainVars, dnsVars, fwVars>>

\* Ok(obj)
GetObjectByNameReturn ==
    /\ cmd = "page" /\ op = "get_object_by_name"
    /\ ret = Running /\ exit
    /\ ret' = Ok(obj)
    /\ UNCHANGED <<cmd, chain, op, name, url, exit, obj, objects, requests, mainVars, dnsVars, fwVars>>

\* Variant of GetDomainLoop: a matching domain does not end the loop while
\* the page has a next link.
GetDomainLoop_ScansAll ==
    /\ cmd = "page" /\ op = "get_domain"
    /\ ret = Running /\ ~exit
    /\ LET resp == chain[url]
           found == Find(resp.items, name)
       IN  /\ requests' = Append(requests, url)
           /\ obj' = found
           /\ IF HasNext(resp.links) THEN url' = NextUrl(resp.links) /\ exit' = exit
              ELSE exit' = TRUE /\ url' = url
    /\ UNCHANGED <<cmd, chain, op, name, objects, ret, mainVars, dnsVars, fwVars>>

\* dns.rs, get_domain: one iteration of its own loop over /v2/domains whose
\* GET succeeds; the predicate is d.name == *domain.
GetDomainLoop ==
    /\ cmd = "page" /\ op = "get_domain"
    /\ ret = Running /\ ~exit
    /\ LET resp == chain[url]
           found == Find(resp.items, name)
       IN  /\ requests' = Append(requests, url)
           /\ obj' = found
           /\ IF IsSome(found) THEN exit' = TRUE /\ url' = url
              ELSE IF HasNext(resp.links) THEN url' = NextUrl(resp.links) /\ exit' = exit
              ELSE exit' = TRUE /\ url' = url
    /\ UNCHANGED <<cmd, chain, op, name, objects, ret, mainVars, dnsVars, fwVars>>

\* dns.rs, get_domain: Ok(obj)
GetDomainReturn ==
    /\ cmd = "page" /\ op = "get_domain"
    /\ ret = Running /\ exit
    /\ ret' = Ok(obj)
    /\ UNCHANGED <<cmd, chain, op, name, url, exit, obj, objects, requests, mainVars, dnsVars, fwVars>>

\* get_object_by_name with the exact-name predicate as a function of the
\* page chain, the name and the page whose GET fails (0 when none does):
\* the page requests it makes and what it returns.
RECURSIVE ObjectByNameFrom(_, _, _, _, _)
ObjectByNameFrom(pages, n, bad, u, sent) ==
    IF u = bad THEN [requests |-> Append(sent, u), ret |-> Err("Request")]
    ELSE LET resp == pages[u]
             links == resp.links
             found == Find(resp.items, n)
         IN  IF IsSome(found) THEN [requests |-> Append(sent, u), ret |-> Ok(found)]
             ELSE IF HasNext(links)
             THEN ObjectByNameFrom(pages, n, bad, NextUrl(links), Append(sent, u))
             ELSE [requests |-> Append(sent, u), ret |-> Ok(found)]
ObjectByName(pages, n, bad) == ObjectByNameFrom(pages, n, bad, 1, <<>>)

\* Variant of GetPageFails: the failed request is logged and the loop goes
\* on, fetching the same page again.
GetPageFails_Retries ==
    /\ cmd = "page"
    /\ ret = Running /\ ~exit
    /\ requests' = Append(requests, url)
    /\ ret' = ret
    /\ UNCHANGED <<cmd, chain, op, name, url, exit, obj, objects, mainVars, dnsVars, fwVars>>

\* send()? or json()? of either loop fails: the request was sent, the error
\* is returned at once.
GetPageFails ==
    /\ cmd = "page"
    /\ ret = Running /\ ~exit
    /\ requests' = Append(requests, url)
    /\ ret' = Err("Request")
    /\ UNCHANGED <<cmd, chain, op, name, url, exit, obj, objects, mainVars, dnsVars, fwVars>>

NextPage ==
    \/ GetAllObjectsLoop
    \/ GetAllObjectsReturn
    \/ GetObjectByNameLoop
    \/ GetObjectByNameReturn
    \/ GetDomainLoop
    \/ GetDomainReturn
    \/ GetPageFails

(***************************************************************************)
(* std::net::IpAddr and its two conversions.  An IpAddr is a value, not a  *)
(* string: parsing is not injective (an IPv6 address has several           *)
(* spellings) and fails on text that is no address; to_string gives the    *)
(* canonical spelling.                                                     *)
(***************************************************************************)
V4a == [family |-> "V4", host |-> 1]
V6a == [family |-> "V6", host |-> 1]
IpAddrs == {V4a, V6a}

\* IpAddr::to_string
IpToString(ip) == IF ip = V4a THEN "8.8.8.8" ELSE "::1"

\* str::parse::<IpAddr>
ParseIp(s) ==
    CASE s = "8.8.8.8" -> Ok(V4a)
      [] s = "::1" -> Ok(V6a)
      [] s = "0:0:0:0:0:0:0:1" -> Ok(V6a)
      [] OTHER -> Err("AddrParseError")

\* The `data` strings a server may hold or echo.
DataStrings == {"8.8.8.8", "::1", "0:0:0:0:0:0:0:1", "bogus"}

(***************************************************************************)
(* The program of main.rs.                                                 *)
(***************************************************************************)
MaxRuns == 2
MaxZone == 2

\* An entry of `calls`: the client method, the HTTP method of the request it
\* sent ("-" when it sent none), what it returned ("ok" or the Error variant),
\* its payload and the response the server gave (None when there was none).
Call(c, http, outcome, payload, resp) ==
    [run |-> run, call |-> c, http |-> http, outcome |-> outcome,
     payload |-> payload, resp |-> resp]

\* What a client method returned, as `calls` records it.
Outcome(res) == IF res.status = "ok" THEN "ok" ELSE res.error

\* main.rs: impl From<digitalocean::error::Error> for Error
ClientErr(kind) == [status |-> "err", error |-> "Client", kind |-> kind]
From(res) == IF res.status = "err" THEN ClientErr(res.error) ELSE res

\* The remote account at the start of an invocation.
Snapshot(z, f) == [zone |-> z, firewalls |-> f]

DomainName == "example.com"
RecordNames == {"www", "mail"}
Ttls == {60, 300}

DomainRecord(id, typ, n, data, ttl) ==
    [id |-> id, typ |-> typ, name |-> n, data |-> data, ttl |-> ttl]

\* cli.rs: an IPv4 address goes with rtype A, an IPv6 address with AAAA.
RtypeOf(ip) == IF ip.family = "V4" THEN "A" ELSE "AAAA"

\* The record lists a zone can hold: ids are the positions, the ttl is 30.
Zones(typ) ==
    { [i \in 1..Len(nd) |-> DomainRecord(i, typ, nd[i][1], nd[i][2], 30)] :
      nd \in SeqsUpTo(RecordNames \X DataStrings, MaxZone) }

DomainLists ==
    { <<>>, <<[name |-> DomainName]>>, <<[name |-> "other.org"], [name |-> DomainName]>> }

IdleDns ==
    /\ domains = <<>>
    /\ zone = <<>>
    /\ faithful = TRUE
    /\ record = None
    /\ log = <<>>

InitDns ==
    /\ cmd = "dns"
    /\ \E ip \in IpAddrs, ttl \in Ttls, dry \in BOOLEAN :
          /\ args = [domain |-> DomainName, record |-> "www", rtype |-> RtypeOf(ip),
                     ip |-> ip, ttl |-> ttl, dry_run |-> dry]
          /\ zone \in Zones(RtypeOf(ip))
    /\ domains \in DomainLists
    /\ faithful \in BOOLEAN
    /\ record = None
    /\ log = <<>>
    /\ run = 1
    /\ pc = "get_domain"
    /\ calls = <<>>
    /\ result = Running
    /\ before = <<Snapshot(zone, <<>>)>>

\* tracing's info!: a line of the log and the values it formats.
Info(msg, shown) == [run |-> run, msg |-> msg, shown |-> shown]

\* run_dns: the line written on the way out of the match on get_record.
Announce(msg) == Append(log, Info(msg, <<args.record, args.domain, args.rtype, args.ip>>))

\* Variant of DryRunRecord: the placeholder carries the requested address.
DryRunRecord_WithData(ttl) == DomainRecord(0, "", "", IpToString(args.ip), ttl)

\* The dry-run placeholder of update_record and create_record.
DryRunRecord(ttl) == DomainRecord(0, "", "", "", ttl)

\* DomainRecordPutBody
PutBody(value) == [data |-> IpToString(value)]

\* DomainRecordPostBody
PostBody(rtype, rec, value, ttl) ==
    [typ |-> rtype, name |-> rec, data |-> IpToString(value), ttl |-> 60]

\* What the server stores and echoes for a write of `data`.
Echoes(data) == IF faithful THEN {data} ELSE DataStrings

\* Variant of CheckEcho: the echoed data only has to be an address.
CheckEcho_NoCompare(resp, value, mismatch) ==
    LET parsed == ParseIp(resp.data)
    IN  IF parsed.status = "err" THEN Err("IpParse")
        ELSE Ok(resp)

\* The check both writes make on the echoed record.
CheckEcho(resp, value, mismatch) ==
    LET parsed == ParseIp(resp.data)
    IN  IF parsed.status = "err" THEN Err("IpParse")
        ELSE IF parsed.value = value THEN Ok(resp)
        ELSE Err(mismatch)

\* Variant of GetDomain: the Option get_domain returned is not looked at.
GetDomain_IgnoresMissing ==
    /\ cmd = "dns" /\ pc = "get_domain"
    /\ LET found == Find(domains, args.domain)
       IN  /\ calls' = Append(calls, Call("get_domain", "GET", "ok", args.domain, found))
           /\ pc' = "get_record" /\ result' = result
    /\ UNCHANGED <<cmd, args, run, before, dnsVars, pageVars, fwVars>>

\* run_dns: client.get_domain(&domain)?.ok_or(Error::DomainNotFound())?
GetDomain ==
    /\ cmd = "dns" /\ pc = "get_domain"
    /\ LET found == Find(domains, args.domain)
       IN  /\ calls' = Append(calls, Call("get_domain", "GET", "ok", args.domain, found))
           /\ IF IsSome(found)
              THEN pc' = "get_record" /\ result' = result
              ELSE pc' = "done" /\ result' = Err("DomainNotFound")
    /\ UNCHANGED <<cmd, args, run, before, dnsVars, pageVars, fwVars>>

\* Variant of GetRecord: the two branches of the comparison are exchanged.
GetRecord_Swapped ==
    /\ cmd = "dns" /\ pc = "get_record"
    /\ LET found == Find(zone, args.record)
       IN  /\ calls' = Append(calls, Call("get_record", "GET", "ok", args.record, found))
           /\ record' = found
           /\ IF IsSome(found)
              THEN LET record_ip == ParseIp(found.val.data)
                   IN  IF record_ip.status = "err"
                       THEN pc' = "done" /\ result' = Err("AddrParseErr") /\ log' = log
                       ELSE IF record_ip.value # args.ip
                       THEN /\ pc' = "done" /\ result' = Ok(found.val)
                            /\ log' = Announce("Record already set")
                       ELSE /\ pc' = "update_record" /\ result' = result
                            /\ log' = Announce("Will update record_name")
              ELSE /\ pc' = "create_record" /\ result' = result
                   /\ log' = Announce("Will create new record")
    /\ UNCHANGED <<cmd, args, run, before, domains, zone, faithful, pageVars, fwVars>>

\* Variant of GetRecord: the record's text is compared with the address's text.
GetRecord_CompareText ==
    /\ cmd = "dns" /\ pc = "get_record"
    /\ LET found == Find(zone, args.record)
       IN  /\ calls' = Append(calls, Call("get_record", "GET", "ok", args.record, found))
           /\ record' = found
           /\ IF IsSome(found)
              THEN LET record_ip == ParseIp(found.val.data)
                   IN  IF record_ip.status = "err"
                       THEN pc' = "done" /\ result' = Err("AddrParseErr") /\ log' = log
                       ELSE IF found.val.data = IpToString(args.ip)
                       THEN /\ pc' = "done" /\ result' = Ok(found.val)
                            /\ log' = Announce("Record already set")
                       ELSE /\ pc' = "update_record" /\ result' = result
                            /\ log' = Announce("Will update record_name")
              ELSE /\ pc' = "create_record" /\ result' = result
                   /\ log' = Announce("Will create new record")
    /\ UNCHANGED <<cmd, args, run, before, domains, zone, faithful, pageVars, fwVars>>

\* Variant of GetRecord: a located record is updated whatever it holds.
GetRecord_AlwaysUpdate ==
    /\ cmd = "dns" /\ pc = "get_record"
    /\ LET found == Find(zone, args.record)
       IN  /\ calls' = Append(calls, Call("get_record", "GET", "ok", args.record, found))
           /\ record' = found
           /\ IF IsSome(found)
              THEN LET record_ip == ParseIp(found.val.data)
                   IN  IF record_ip.status = "err"
                       THEN pc' = "done" /\ result' = Err("AddrParseErr") /\ log' = log
                       ELSE IF FALSE
                       THEN /\ pc' = "done" /\ result' = Ok(found.val)
                            /\ log' = Announce("Record already set")
                       ELSE /\ pc' = "update_record" /\ result' = result
                            /\ log' = Announce("Will update record_name")
              ELSE /\ pc' = "create_record" /\ result' = result
                   /\ log' = Announce("Will create new record")
    /\ UNCHANGED <<cmd, args, run, before, domains, zone, faithful, pageVars, fwVars>>

\* Variant of GetRecord: a record that holds another address is left alone
\* and a new record is created.
GetRecord_CreatesOnMismatch ==
    /\ cmd = "dns" /\ pc = "get_record"
    /\ LET found == Find(zone, args.record)
       IN  /\ calls' = Append(calls, Call("get_record", "GET", "ok", args.record, found))
           /\ record' = found
           /\ IF IsSome(found)
              THEN LET record_ip == ParseIp(found.val.data)
                   IN  IF record_ip.status = "err"
                       THEN pc' = "done" /\ result' = Err("AddrParseErr") /\ log' = log
                       ELSE IF record_ip.value = args.ip
                       THEN /\ pc' = "done" /\ result' = Ok(found.val)
                            /\ log' = Announce("Record already set")
                       ELSE /\ pc' = "create_record" /\ result' = result
                            /\ log' = Announce("Will create new record")
              ELSE /\ pc' = "create_record" /\ result' = result
                   /\ log' = Announce("Will create new record")
    /\ UNCHANGED <<cmd, args, run, before, domains, zone, faithful, pageVars, fwVars>>

\* Variant of GetRecord: a record whose data is no address is updated.
GetRecord_UpdatesUnparsable ==
    /\ cmd = "dns" /\ pc = "get_record"
    /\ LET found == Find(zone, args.record)
       IN  /\ calls' = Append(calls, Call("get_record", "GET", "ok", args.record, found))
           /\ record' = found
           /\ IF IsSome(found)
              THEN LET record_ip == ParseIp(found.val.data)
                   IN  IF record_ip.status = "ok" /\ record_ip.value = args.ip
                       THEN /\ pc' = "done" /\ result' = Ok(found.val)
                            /\ log' = Announce("Record already set")
                       ELSE /\ pc' = "update_record" /\ result' = result
                            /\ log' = Announce("Will update record_name")
              ELSE /\ pc' = "create_record" /\ result' = result
                   /\ log' = Announce("Will create new record")
    /\ UNCHANGED <<cmd, args, run, before, domains, zone, faithful, pageVars, fwVars>>

\* run_dns: client.get_record(...)? and the match on what it returned, up to
\* the call of update_record or create_record.
GetRecord ==
    /\ cmd = "dns" /\ pc = "get_record"
    /\ LET found == Find(zone, args.record)
       IN  /\ calls' = Append(calls, Call("get_record", "GET", "ok", args.record, found))
           /\ record' = found
           /\ IF IsSome(found)
              THEN LET record_ip == ParseIp(found.val.data)
                   IN  IF record_ip.status = "err"
                       THEN pc' = "done" /\ result' = Err("AddrParseErr") /\ log' = log
                       ELSE IF record_ip.value = args.ip
                       THEN /\ pc' = "done" /\ result' = Ok(found.val)
                            /\ log' = Announce("Record already set")
                       ELSE /\ pc' = "update_record" /\ result' = result
                            /\ log' = Announce("Will update record_name")
              ELSE /\ pc' = "create_record" /\ result' = result
                   /\ log' = Announce("Will create new record")
    /\ UNCHANGED <<cmd, args, run, before, domains, zone, faithful, pageVars, fwVars>>

\* A read of run_dns fails in transport or decoding.
DnsReadFails ==
    /\ cmd = "dns" /\ pc \in {"get_domain", "get_record"}
    /\ calls' = Append(calls, Call(pc, "GET", "Request", None, None))
    /\ pc' = "done"
    /\ result' = ClientErr("Request")
    /\ UNCHANGED <<cmd, args, run, before, dnsVars, pageVars, fwVars>>

\* client.update_record(&domain, &record, &ip, &ttl, &dry_run)? with a
\* response from the server.
UpdateRecord ==
    /\ cmd = "dns" /\ pc = "update_record"
    /\ pc' = "done"
    /\ IF args.dry_run
       THEN /\ calls' = Append(calls, Call("update_record", "-", "ok", None, None))
            /\ result' = Ok(DryRunRecord(args.ttl))
            /\ zone' = zone
            /\ log' = log \o <<Info("DRY RUN: Updating record",
                                    <<record.val.name, args.domain, args.ip>>),
                               Info("Successfully updated record!", <<>>)>>
       ELSE LET body == PutBody(args.ip)
            IN  \E echo \in Echoes(body.data) :
                  LET resp == [record.val EXCEPT !.data = echo]
                      res == CheckEcho(resp, args.ip, "UpdateDns")
                  IN  /\ zone' = [i \in 1..Len(zone) |->
                                    IF zone[i].id = record.val.id THEN resp ELSE zone[i]]
                      /\ calls' = Append(calls,
                                    Call("update_record", "PUT", Outcome(res), body, Some(resp)))
                      /\ result' = From(res)
                      /\ log' = IF res.status = "ok"
                                THEN Append(log, Info("Successfully updated record!", <<>>))
                                ELSE log
    /\ UNCHANGED <<cmd, args, run, before, domains, faithful, record, pageVars, fwVars>>

\* client.create_record(&domain, &record_name, &rtype, &ip, &ttl, &dry_run)?
\* with a response from the server.
CreateRecord ==
    /\ cmd = "dns" /\ pc = "create_record"
    /\ pc' = "done"
    /\ IF args.dry_run
       THEN /\ calls' = Append(calls, Call("create_record", "-", "ok", None, None))
            /\ result' = Ok(DryRunRecord(args.ttl))
            /\ zone' = zone
            /\ log' = log \o <<Info("DRY RUN: Create record",
                                    <<args.rtype, args.record, args.domain, args.ip>>),
                               Info("Successfully created new record!",
                                    <<DryRunRecord(args.ttl).id>>)>>
       ELSE LET body == PostBody(args.rtype, args.record, args.ip, args.ttl)
            IN  \E echo \in Echoes(body.data) :
                  LET resp == DomainRecord(Len(zone) + 1, body.typ, body.name, echo, body.ttl)
                      res == CheckEcho(resp, args.ip, "CreateDns")
                  IN  /\ zone' = Append(zone, resp)
                      /\ calls' = Append(calls,
                                    Call("create_record", "POST", Outcome(res), body, Some(resp)))
                      /\ result' = From(res)
                      /\ log' = IF res.status = "ok"
                                THEN Append(log, Info("Successfully created new record!",
                                                      <<res.value.id>>))
                                ELSE log
    /\ UNCHANGED <<cmd, args, run, before, domains, faithful, record, pageVars, fwVars>>

\* The request of a non-dry-run write fails in transport or decoding; the
\* server may or may not have applied it.
DnsWriteFails ==
    /\ cmd = "dns" /\ pc \in {"update_record", "create_record"}
    /\ ~args.dry_run
    /\ LET data == IpToString(args.ip)
           applied == IF pc = "update_record"
                      THEN [i \in 1..Len(zone) |->
                              IF zone[i].id = record.val.id
                              THEN [zone[i] EXCEPT !.data = data] ELSE zone[i]]
                      ELSE Append(zone, DomainRecord(Len(zone) + 1, args.rtype,
                                                     args.record, data, 60))
       IN  zone' \in {zone, applied}
    /\ calls' = Append(calls, Call(pc, IF pc = "update_record" THEN "PUT" ELSE "POST",
                                   "Request", None, None))
    /\ pc' = "done"
    /\ result' = ClientErr("Request")
    /\ UNCHANGED <<cmd, args, run, before, domains, faithful, record, log, pageVars, fwVars>>

\* The operator runs the program again with the same command line.
DnsInvokeAgain ==
    /\ cmd = "dns" /\ pc = "done"
    /\ run < MaxRuns
    /\ run' = run + 1
    /\ pc' = "get_domain"
    /\ record' = None
    /\ result' = Running
    /\ before' = Append(before, Snapshot(zone, <<>>))
    /\ UNCHANGED <<cmd, args, calls, domains, zone, faithful, log, pageVars, fwVars>>

(***************************************************************************)
(* The firewall subcommand: build_firewall_args, then update_firewall.     *)
(***************************************************************************)
MaxRules == 2
MaxAddrs == 2
MaxNames == 2

FirewallName == "Foo"
FirewallId == "fw-1"

\* FirewallRuleTarget
Target(addresses, droplet_ids, load_balancer_uids, kubernetes_ids, tags) ==
    [addresses |-> addresses, droplet_ids |-> droplet_ids,
     load_balancer_uids |-> load_balancer_uids, kubernetes_ids |-> kubernetes_ids,
     tags |-> tags]

\* FirewallInboundRule / FirewallOutboundRule
InboundRule(protocol, ports, sources) ==
    [protocol |-> protocol, ports |-> ports, sources |-> sources]
OutboundRule(protocol, ports, destinations) ==
    [protocol |-> protocol, ports |-> ports, destinations |-> destinations]

\* A rule of the given direction.
Rule(direction, protocol, ports, target) ==
    IF direction = "Inbound" THEN InboundRule(protocol, ports, target)
    ELSE OutboundRule(protocol, ports, target)

\* The rule's target selector.
TargetOf(direction, rule) ==
    IF direction = "Inbound" THEN rule.sources ELSE rule.destinations

\* The rules a remote firewall is built from: two rules for tcp/443 with
\* different targets and one rule for another port.
RuleShapes ==
    { <<"tcp", "443", Target(Some(<<"9.9.9.9">>), Some(<<7>>), Some(<<"lb-old">>), Some(<<"k-old">>),
                            Some(<<"bar">>))>>,
      <<"tcp", "443", Target(Some(<<"8.8.8.8">>), None, None, None, None)>>,
      <<"udp", "53", Target(Some(<<"0.0.0.0/0">>), None, None, None, Some(<<"dns">>))>> }

RuleSet(direction) == { Rule(direction, s[1], s[2], s[3]) : s \in RuleShapes }

\* A rule is identified by its entire definition (firewall.rs, on
\* add_firewall_rule), so a remote rule list holds no rule twice.
NoRepeat(s) == \A i, j \in 1..Len(s) : s[i] = s[j] => i = j
RuleLists(direction) == { s \in SeqsUpTo(RuleSet(direction), MaxRules) : NoRepeat(s) }

Other(direction) == IF direction = "Inbound" THEN "Outbound" ELSE "Inbound"

\* struct Firewall, with the rule list `rules` in `direction` and `others`
\* in the other direction.
Firewall(direction, rules, others) ==
    [id |-> FirewallId, name |-> FirewallName,
     inbound_rules |-> IF direction = "Inbound" THEN rules ELSE others,
     outbound_rules |-> IF direction = "Inbound" THEN others ELSE rules]

\* The firewall's rule list of a direction.
RulesOf(direction, fw) ==
    IF direction = "Inbound" THEN fw.inbound_rules ELSE fw.outbound_rules

AddrStrings == {"8.8.8.8", "::1"}
DropletNames == {"a", "b", "zz"}
DropletLists ==
    { <<[name |-> "a", id |-> 1], [name |-> "b", id |-> 2]>>,
      <<[name |-> "a", id |-> 1], [name |-> "b", id |-> 2], [name |-> "a", id |-> 3]>> }
Clusters == <<[name |-> "k", id |-> "k-uuid"]>>
Balancers == <<[name |-> "p", id |-> "p-uuid"]>>

OptSeqs(S, n) == {None} \cup {Some(s) : s \in SeqsUpTo(S, n)}

\* The command lines and remote accounts a firewall run starts from: every
\* target-selector input against a firewall with one matching rule, and
\* every remote rule list with few selector inputs; `present` tells whether
\* the account's firewall carries the requested name.
FirewallInputs(direction) ==
    { [present |-> TRUE,
       rules |-> Some(<<r>>), others |-> None,
       addresses |-> a, droplet_names |-> d, kubernetes_cluster_names |-> k,
       load_balancer_names |-> b, droplets |-> dl] :
      r \in {x \in RuleSet(direction) : x.ports = "443" /\ IsSome(TargetOf(direction, x).tags)},
      a \in OptSeqs(AddrStrings, MaxAddrs),
      d \in OptSeqs(DropletNames, MaxNames),
      k \in {None, Some(<<"k">>)},
      b \in {None, Some(<<"p">>)},
      dl \in DropletLists }
    \cup
    { [present |-> p,
       rules |-> r, others |-> o,
       addresses |-> a, droplet_names |-> d, kubernetes_cluster_names |-> None,
       load_balancer_names |-> None, droplets |-> dl] :
      p \in BOOLEAN,
      r \in {None} \cup {Some(l) : l \in RuleLists(direction)},
      o \in {None} \cup {Some(<<x>>) : x \in {y \in RuleSet(Other(direction)) : y.ports = "53"}},
      a \in {None, Some(<<"8.8.8.8">>)},
      d \in {None, Some(<<"a">>)},
      dl \in {l \in DropletLists : Len(l) = 2} }

NoIds == [droplet_ids |-> None, kubernetes_ids |-> None, load_balancer_uids |-> None]

IdleFw ==
    /\ firewalls = <<>>
    /\ droplets = <<>>
    /\ firewall = None
    /\ ids = NoIds
    /\ replacement = None
    /\ meddled = 0

InitFw ==
    /\ cmd = "firewall"
    /\ \E direction \in {"Inbound", "Outbound"}, ip \in IpAddrs, dry \in BOOLEAN :
         \E in \in FirewallInputs(direction) :
            /\ args = [name |-> FirewallName, direction |-> direction,
                       port |-> "443", protocol |-> "tcp",
                       addresses |-> in.addresses,
                       droplets |-> in.droplet_names,
                       kubernetes_clusters |-> in.kubernetes_cluster_names,
                       load_balancers |-> in.load_balancer_names,
                       ip |-> ip, dry_run |-> dry]
            /\ firewalls = IF in.present
                           THEN <<Firewall(direction, in.rules, in.others)>>
                           ELSE IF IsSome(in.rules)
                           THEN <<[Firewall(direction, in.rules, in.others)
                                      EXCEPT !.id = "fw-2", !.name = "Bar"]>>
                           ELSE <<>>
            /\ droplets = in.droplets
    /\ firewall = None
    /\ ids = NoIds
    /\ replacement = None
    /\ meddled = 0
    /\ run = 1
    /\ pc = "get_firewall"
    /\ calls = <<>>
    /\ result = Running
    /\ before = <<Snapshot(<<>>, firewalls)>>

\* Variant of AllAddresses: the address is pushed without the contains test.
AllAddresses_AlwaysPush(addresses, ip) ==
    LET all_addresses == IF IsSome(addresses) THEN addresses.val ELSE <<>>
    IN  Some(Append(all_addresses, IpToString(ip)))

\* Variant of AllAddresses: the address is put in front of the given ones.
AllAddresses_IpFirst(addresses, ip) ==
    LET all_addresses == IF IsSome(addresses) THEN addresses.val ELSE <<>>
        ip_str == IpToString(ip)
    IN  IF ~Contains(all_addresses, ip_str)
        THEN Some(<<IpToString(ip)>> \o all_addresses)
        ELSE Some(all_addresses)

\* build_firewall_args: all_addresses
AllAddresses(addresses, ip) ==
    LET all_addresses == IF IsSome(addresses) THEN addresses.val ELSE <<>>
        ip_str == IpToString(ip)
    IN  IF ~Contains(all_addresses, ip_str)
        THEN Some(Append(all_addresses, IpToString(ip)))
        ELSE Some(all_addresses)

\* Variant of ByName: the first object of a name is kept.
ByName_FirstWins(objs) ==
    [n \in {objs[i].name : i \in 1..Len(objs)} |->
        objs[CHOOSE i \in 1..Len(objs) :
                /\ objs[i].name = n
                /\ \A j \in 1..Len(objs) : objs[j].name = n => j >= i]]

\* names_to_ids: the HashMap collected from (name, object) pairs; a later
\* object replaces an earlier one of the same name.
ByName(objs) ==
    [n \in {objs[i].name : i \in 1..Len(objs)} |->
        objs[CHOOSE i \in 1..Len(objs) :
                /\ objs[i].name = n
                /\ \A j \in 1..Len(objs) : objs[j].name = n => j <= i]]

\* Variant of NamesToIds: a name the collection lacks is left out of the ids.
NamesToIds_SkipsMissing(objs, ns) ==
    LET by_name == ByName(objs)
        known == SelectSeq(ns, LAMBDA n : n \in DOMAIN by_name)
    IN  Ok(Some([i \in 1..Len(known) |-> by_name[known[i]].id]))

\* Variant of NamesToIds: the ids come out in the reverse of the request order.
NamesToIds_Reversed(objs, ns) ==
    LET by_name == ByName(objs)
    IN  IF \E i \in 1..Len(ns) : ns[i] \notin DOMAIN by_name
        THEN Panic("Unable to find object with name")
        ELSE Ok(Some([i \in 1..Len(ns) |-> by_name[ns[Len(ns) + 1 - i]].id]))

\* names_to_ids, once get_objects has returned `objs` for the names `ns`.
NamesToIds(objs, ns) ==
    LET by_name == ByName(objs)
    IN  IF \E i \in 1..Len(ns) : ns[i] \notin DOMAIN by_name
        THEN Panic("Unable to find object with name")
        ELSE Ok(Some([i \in 1..Len(ns) |-> by_name[ns[i]].id]))

\* Iterator::find(|x| x.ports == port && x.protocol == protocol)
RECURSIVE FindRuleFrom(_, _, _, _)
FindRuleFrom(rules, port, protocol, i) ==
    IF i > Len(rules) THEN None
    ELSE IF rules[i].ports = port /\ rules[i].protocol = protocol THEN Some(rules[i])
    ELSE FindRuleFrom(rules, port, protocol, i + 1)

\* Variant of FindRule: the last rule of the port and protocol is taken.
FindRule_Last(rules, port, protocol) ==
    LET at == {i \in 1..Len(rules) : rules[i].ports = port /\ rules[i].protocol = protocol}
    IN  IF at = {} THEN None
        ELSE Some(rules[CHOOSE i \in at : \A j \in at : j <= i])

\* rules.iter().find(..)
FindRule(rules, port, protocol) == FindRuleFrom(rules, port, protocol, 1)

\* Variant of BuildReplacement: a selector that was not resolved this run is
\* copied from the old rule.
BuildReplacement_KeepsOld(fw, direction, port, protocol, all_addresses, resolved) ==
    LET rules == RulesOf(direction, fw)
        keep(new, old) == IF IsSome(new) THEN new ELSE old
    IN  IF IsNone(rules) THEN Panic("No rules available")
        ELSE LET found == FindRule(rules.val, port, protocol)
             IN  IF IsNone(found) THEN Panic("Unable to find firewall rule")
                 ELSE LET old == found.val
                          was == TargetOf(direction, old)
                          new == Rule(direction, old.protocol, old.ports,
                                      Target(all_addresses,
                                             keep(resolved.droplet_ids, was.droplet_ids),
                                             keep(resolved.load_balancer_uids, was.load_balancer_uids),
                                             keep(resolved.kubernetes_ids, was.kubernetes_ids),
                                             was.tags))
                      IN  Ok([old |-> old, new |-> new])

\* Variant of BuildReplacement: the new rule carries no tags.
BuildReplacement_DropsTags(fw, direction, port, protocol, all_addresses, resolved) ==
    LET rules == RulesOf(direction, fw)
    IN  IF IsNone(rules) THEN Panic("No rules available")
        ELSE LET found == FindRule(rules.val, port, protocol)
             IN  IF IsNone(found) THEN Panic("Unable to find firewall rule")
                 ELSE LET old == found.val
                          new == Rule(direction, old.protocol, old.ports,
                                      Target(all_addresses,
                                             resolved.droplet_ids,
                                             resolved.load_balancer_uids,
                                             resolved.kubernetes_ids,
                                             None))
                      IN  Ok([old |-> old, new |-> new])

\* Variant of BuildReplacement: with no rule to replace, the new rule is
\* built from the requested port and protocol.
BuildReplacement_AddsWhenMissing(fw, direction, port, protocol, all_addresses, resolved) ==
    LET rules == RulesOf(direction, fw)
        found == IF IsNone(rules) THEN None ELSE FindRule(rules.val, port, protocol)
        fresh == Rule(direction, protocol, port,
                      Target(all_addresses, resolved.droplet_ids,
                             resolved.load_balancer_uids, resolved.kubernetes_ids, None))
    IN  IF IsNone(found) THEN Ok([old |-> fresh, new |-> fresh])
        ELSE LET old == found.val
                 new == Rule(direction, old.protocol, old.ports,
                             Target(all_addresses,
                                    resolved.droplet_ids,
                                    resolved.load_balancer_uids,
                                    resolved.kubernetes_ids,
                                    TargetOf(direction, old).tags))
             IN  Ok([old |-> old, new |-> new])

\* build_firewall_args: the match on `direction`, giving the (old, new) pair.
BuildReplacement(fw, direction, port, protocol, all_addresses, resolved) ==
    LET rules == RulesOf(direction, fw)
    IN  IF IsNone(rules) THEN Panic("No rules available")
        ELSE LET found == FindRule(rules.val, port, protocol)
             IN  IF IsNone(found) THEN Panic("Unable to find firewall rule")
                 ELSE LET old == found.val
                          new == Rule(direction, old.protocol, old.ports,
                                      Target(all_addresses,
                                             resolved.droplet_ids,
                                             resolved.load_balancer_uids,
                                             resolved.kubernetes_ids,
                                             TargetOf(direction, old).tags))
                      IN  Ok([old |-> old, new |-> new])

\* Variant of LocateFirewall: the droplet names are resolved before the
\* Option get_firewall returned is matched.
LocateFirewall_ListsFirst ==
    /\ cmd = "firewall" /\ pc = "get_firewall"
    /\ LET found == Find(firewalls, args.name)
           located == Append(calls, Call("get_firewall", "GET", "ok", args.name, found))
       IN  /\ firewall' = found
           /\ IF IsSome(found)
              THEN calls' = located /\ pc' = "droplets" /\ result' = result
              ELSE /\ calls' = IF IsSome(args.droplets)
                               THEN Append(located, Call("get_droplets", "GET", "ok", None,
                                                         Some(droplets)))
                               ELSE located
                   /\ pc' = "done" /\ result' = Err("FirewallNotFound")
    /\ UNCHANGED <<cmd, args, run, before, firewalls, droplets, meddled,
                   ids, replacement, pageVars, dnsVars>>

\* build_firewall_args: fw_client.get_firewall(name)?
LocateFirewall ==
    /\ cmd = "firewall" /\ pc = "get_firewall"
    /\ LET found == Find(firewalls, args.name)
       IN  /\ calls' = Append(calls, Call("get_firewall", "GET", "ok", args.name, found))
           /\ firewall' = found
           /\ IF IsSome(found)
              THEN pc' = "droplets" /\ result' = result
              ELSE pc' = "done" /\ result' = Err("FirewallNotFound")
    /\ UNCHANGED <<cmd, args, run, before, firewalls, droplets, meddled,
                   ids, replacement, pageVars, dnsVars>>

\* Variant of ResolveDroplets: a dry run does not list the droplets.
ResolveDroplets_DryRunSkips ==
    /\ cmd = "firewall" /\ pc = "droplets"
    /\ IF IsNone(args.droplets) \/ args.dry_run
       THEN /\ calls' = calls
            /\ ids' = [ids EXCEPT !.droplet_ids = None]
            /\ pc' = "kubernetes" /\ result' = result
       ELSE LET r == NamesToIds(droplets, args.droplets.val)
            IN  /\ calls' = Append(calls, Call("get_droplets", "GET", "ok", None, Some(droplets)))
                /\ IF r.status = "ok"
                   THEN /\ ids' = [ids EXCEPT !.droplet_ids = r.value]
                        /\ pc' = "kubernetes" /\ result' = result
                   ELSE /\ ids' = ids
                        /\ pc' = "done" /\ result' = r
    /\ UNCHANGED <<cmd, args, run, before, firewalls, droplets, meddled,
                   firewall, replacement, pageVars, dnsVars>>

\* Variant of ResolveDroplets: the collection is fetched once for each name.
ResolveDroplets_FetchPerName ==
    /\ cmd = "firewall" /\ pc = "droplets"
    /\ IF IsNone(args.droplets)
       THEN /\ calls' = calls
            /\ ids' = [ids EXCEPT !.droplet_ids = None]
            /\ pc' = "kubernetes" /\ result' = result
       ELSE LET r == NamesToIds(droplets, args.droplets.val)
            IN  /\ calls' = calls \o [i \in 1..Len(args.droplets.val) |->
                                        Call("get_droplets", "GET", "ok", None, Some(droplets))]
                /\ IF r.status = "ok"
                   THEN /\ ids' = [ids EXCEPT !.droplet_ids = r.value]
                        /\ pc' = "kubernetes" /\ result' = result
                   ELSE /\ ids' = ids
                        /\ pc' = "done" /\ result' = r
    /\ UNCHANGED <<cmd, args, run, before, firewalls, droplets, meddled,
                   firewall, replacement, pageVars, dnsVars>>

\* names_to_ids(|| droplet_client.get_droplets(), droplet_names, ..)?
ResolveDroplets ==
    /\ cmd = "firewall" /\ pc = "droplets"
    /\ IF IsNone(args.droplets)
       THEN /\ calls' = calls
            /\ ids' = [ids EXCEPT !.droplet_ids = None]
            /\ pc' = "kubernetes" /\ result' = result
       ELSE LET r == NamesToIds(droplets, args.droplets.val)
            IN  /\ calls' = Append(calls, Call("get_droplets", "GET", "ok", None, Some(droplets)))
                /\ IF r.status = "ok"
                   THEN /\ ids' = [ids EXCEPT !.droplet_ids = r.value]
                        /\ pc' = "kubernetes" /\ result' = result
                   ELSE /\ ids' = ids
                        /\ pc' = "done" /\ result' = r
    /\ UNCHANGED <<cmd, args, run, before, firewalls, droplets, meddled,
                   firewall, replacement, pageVars, dnsVars>>

\* names_to_ids(|| kubernetes_client.get_kubernetes_clusters(), ..)?
ResolveClusters ==
    /\ cmd = "firewall" /\ pc = "kubernetes"
    /\ IF IsNone(args.kubernetes_clusters)
       THEN /\ calls' = calls
            /\ ids' = [ids EXCEPT !.kubernetes_ids = None]
            /\ pc' = "load_balancers" /\ result' = result
       ELSE LET r == NamesToIds(Clusters, args.kubernetes_clusters.val)
            IN  /\ calls' = Append(calls, Call("get_kubernetes_clusters", "GET", "ok", None, Some(Clusters)))
                /\ IF r.status = "ok"
                   THEN /\ ids' = [ids EXCEPT !.kubernetes_ids = r.value]
                        /\ pc' = "load_balancers" /\ result' = result
                   ELSE /\ ids' = ids
                        /\ pc' = "done" /\ result' = r
    /\ UNCHANGED <<cmd, args, run, before, firewalls, droplets, meddled,
                   firewall, replacement, pageVars, dnsVars>>

\* names_to_ids(|| load_balancer_client.get_load_balancers(), ..)? and the
\* rest of build_firewall_args: the match on `direction`.
ResolveBalancers ==
    /\ cmd = "firewall" /\ pc = "load_balancers"
    /\ LET r == IF IsNone(args.load_balancers) THEN Ok(None)
                ELSE NamesToIds(Balancers, args.load_balancers.val)
       IN  /\ calls' = IF IsNone(args.load_balancers) THEN calls
                       ELSE Append(calls, Call("get_load_balancers", "GET", "ok", None, Some(Balancers)))
           /\ IF r.status = "ok"
              THEN LET resolved == [ids EXCEPT !.load_balancer_uids = r.value]
                       built == BuildReplacement(firewall.val, args.direction, args.port,
                                                 args.protocol,
                                                 AllAddresses(args.addresses, args.ip),
                                                 resolved)
                   IN  /\ ids' = resolved
                       /\ IF built.status = "ok"
                          THEN /\ replacement' = Some(built.value)
                               /\ pc' = "delete_firewall_rule" /\ result' = result
                          ELSE /\ replacement' = replacement
                               /\ pc' = "done" /\ result' = built
              ELSE /\ ids' = ids /\ replacement' = replacement
                   /\ pc' = "done" /\ result' = r
    /\ UNCHANGED <<cmd, args, run, before, firewalls, droplets, meddled,
                   firewall, pageVars, dnsVars>>

\* get_objects() of a names_to_ids fails in transport or decoding.
ResolveFails ==
    /\ cmd = "firewall"
    /\ \/ pc = "droplets" /\ IsSome(args.droplets)
       \/ pc = "kubernetes" /\ IsSome(args.kubernetes_clusters)
       \/ pc = "load_balancers" /\ IsSome(args.load_balancers)
    /\ calls' = Append(calls, Call(CASE pc = "droplets" -> "get_droplets"
                                      [] pc = "kubernetes" -> "get_kubernetes_clusters"
                                      [] OTHER -> "get_load_balancers",
                                    "GET", "Request", None, None))
    /\ pc' = "done"
    /\ result' = ClientErr("Request")
    /\ UNCHANGED <<cmd, args, run, before, fwVars, pageVars, dnsVars>>

\* A get_firewall fails in transport or decoding.
GetFirewallFails ==
    /\ cmd = "firewall" /\ pc \in {"get_firewall", "confirm"}
    /\ calls' = Append(calls, Call("get_firewall", "GET", "Request",
                                    IF pc = "confirm" THEN firewall.val.name ELSE args.name,
                                    None))
    /\ pc' = "done"
    /\ result' = ClientErr("Request")
    /\ UNCHANGED <<cmd, args, run, before, fwVars, pageVars, dnsVars>>

\* Variant of Slot: the slot of the other direction is an empty list.
Slot_EmptyOther(direction, which, rule) ==
    IF direction = which THEN Some(<<rule>>) ELSE Some(<<>>)

\* update_firewall: the one-element lists handed to the client; the slot of
\* the other direction is None.
Slot(direction, which, rule) ==
    IF direction = which THEN Some(<<rule>>) ELSE None

\* FirewallRuleBody
RuleBody(id, inbound_rules, outbound_rules) ==
    [id |-> id, inbound_rules |-> inbound_rules, outbound_rules |-> outbound_rules]

\* Remote: the rule list without the rules of `gone`.
Without(rules, gone) ==
    IF IsNone(rules) \/ IsNone(gone) THEN rules
    ELSE Some(SelectSeq(rules.val, LAMBDA r : ~Contains(gone.val, r)))

\* Remote: the rule list with the rules of `more` it does not hold yet.
With(rules, more) ==
    IF IsNone(more) THEN rules
    ELSE LET had == IF IsNone(rules) THEN <<>> ELSE rules.val
         IN  Some(had \o SelectSeq(more.val, LAMBDA r : ~Contains(had, r)))

\* Remote: DELETE /v2/firewalls/{id}/rules answered with 204.
Deleted(fws, body) ==
    [i \in 1..Len(fws) |->
        IF fws[i].id = body.id
        THEN [fws[i] EXCEPT !.inbound_rules = Without(@, body.inbound_rules),
                            !.outbound_rules = Without(@, body.outbound_rules)]
        ELSE fws[i]]

\* Remote: POST /v2/firewalls/{id}/rules answered with 204.
Added(fws, body) ==
    [i \in 1..Len(fws) |->
        IF fws[i].id = body.id
        THEN [fws[i] EXCEPT !.inbound_rules = With(@, body.inbound_rules),
                            !.outbound_rules = With(@, body.outbound_rules)]
        ELSE fws[i]]

\* Remote: the account holds a firewall of this id; only then is a rule
\* change answered with 204.
Known(id) == \E i \in 1..Len(firewalls) : firewalls[i].id = id

\* The statuses a rule change is answered with besides 204 No Content.
OtherStatus == {200, 404, 422}

\* The answer to a rule change: its status and what its body holds, the
\* API's error message ("ErrorResponse"), nothing ("") or something that
\* does not decode as one ("other").
Response(status, body) == [status |-> status, body |-> body]

\* Variant of DeleteFirewallRule: the request is sent in a dry run too.
DeleteFirewallRule_IgnoresDryRun ==
    /\ cmd = "firewall" /\ pc = "delete_firewall_rule"
    /\ LET body == RuleBody(firewall.val.id,
                            Slot(args.direction, "Inbound", replacement.val.old),
                            Slot(args.direction, "Outbound", replacement.val.old))
       IN  /\ calls' = Append(calls, Call("delete_firewall_rule", "DELETE", "ok", body,
                                       Some(Response(204, ""))))
           /\ firewalls' = Deleted(firewalls, body)
    /\ pc' = "add_firewall_rule"
    /\ UNCHANGED <<cmd, args, run, before, result, droplets, meddled,
                   firewall, ids, replacement, pageVars, dnsVars>>

\* Variant of DeleteFirewallRule: the new rule is handed to the delete.
DeleteFirewallRule_SendsNew ==
    /\ cmd = "firewall" /\ pc = "delete_firewall_rule"
    /\ LET body == RuleBody(firewall.val.id,
                            Slot(args.direction, "Inbound", replacement.val.new),
                            Slot(args.direction, "Outbound", replacement.val.new))
       IN  IF args.dry_run
           THEN /\ calls' = Append(calls, Call("delete_firewall_rule", "-", "ok", body, None))
                /\ firewalls' = firewalls
           ELSE /\ calls' = Append(calls, Call("delete_firewall_rule", "DELETE", "ok", body,
                                       Some(Response(204, ""))))
                /\ firewalls' = Deleted(firewalls, body)
    /\ pc' = "add_firewall_rule"
    /\ UNCHANGED <<cmd, args, run, before, result, droplets, meddled,
                   firewall, ids, replacement, pageVars, dnsVars>>

\* Variant of DeleteFirewallRule: when the new rule is the old rule, nothing
\* is deleted or added and the run goes on to the re-fetch.
DeleteFirewallRule_SkipsUnchanged ==
    /\ cmd = "firewall" /\ pc = "delete_firewall_rule"
    /\ args.dry_run \/ Known(firewall.val.id)
    /\ LET body == RuleBody(firewall.val.id,
                            Slot(args.direction, "Inbound", replacement.val.old),
                            Slot(args.direction, "Outbound", replacement.val.old))
       IN  IF replacement.val.old = replacement.val.new
           THEN calls' = calls /\ firewalls' = firewalls /\ pc' = "confirm"
           ELSE /\ pc' = "add_firewall_rule"
                /\ IF args.dry_run
                   THEN /\ calls' = Append(calls, Call("delete_firewall_rule", "-", "ok",
                                                       body, None))
                        /\ firewalls' = firewalls
                   ELSE /\ calls' = Append(calls, Call("delete_firewall_rule", "DELETE", "ok",
                                                       body, Some(Response(204, ""))))
                        /\ firewalls' = Deleted(firewalls, body)
    /\ UNCHANGED <<cmd, args, run, before, result, droplets, meddled,
                   firewall, ids, replacement, pageVars, dnsVars>>

\* update_firewall: fw_client.delete_firewall_rule(..)? returning Ok.
DeleteFirewallRule ==
    /\ cmd = "firewall" /\ pc = "delete_firewall_rule"
    /\ args.dry_run \/ Known(firewall.val.id)
    /\ LET body == RuleBody(firewall.val.id,
                            Slot(args.direction, "Inbound", replacement.val.old),
                            Slot(args.direction, "Outbound", replacement.val.old))
       IN  IF args.dry_run
           THEN /\ calls' = Append(calls, Call("delete_firewall_rule", "-", "ok", body, None))
                /\ firewalls' = firewalls
           ELSE /\ calls' = Append(calls, Call("delete_firewall_rule", "DELETE", "ok", body,
                                       Some(Response(204, ""))))
                /\ firewalls' = Deleted(firewalls, body)
    /\ pc' = "add_firewall_rule"
    /\ UNCHANGED <<cmd, args, run, before, result, droplets, meddled,
                   firewall, ids, replacement, pageVars, dnsVars>>

\* Variant of AddFirewallRule: the old rule is handed to the add.
AddFirewallRule_SendsOld ==
    /\ cmd = "firewall" /\ pc = "add_firewall_rule"
    /\ args.dry_run \/ Known(firewall.val.id)
    /\ LET body == RuleBody(firewall.val.id,
                            Slot(args.direction, "Inbound", replacement.val.old),
                            Slot(args.direction, "Outbound", replacement.val.old))
       IN  IF args.dry_run
           THEN /\ calls' = Append(calls, Call("add_firewall_rule", "-", "ok", body, None))
                /\ firewalls' = firewalls
           ELSE /\ calls' = Append(calls, Call("add_firewall_rule", "POST", "ok", body,
                                       Some(Response(204, ""))))
                /\ firewalls' = Added(firewalls, body)
    /\ pc' = "confirm"
    /\ UNCHANGED <<cmd, args, run, before, result, droplets, meddled,
                   firewall, ids, replacement, pageVars, dnsVars>>

\* update_firewall: fw_client.add_firewall_rule(..)? returning Ok.
AddFirewallRule ==
    /\ cmd = "firewall" /\ pc = "add_firewall_rule"
    /\ args.dry_run \/ Known(firewall.val.id)
    /\ LET body == RuleBody(firewall.val.id,
                            Slot(args.direction, "Inbound", replacement.val.new),
                            Slot(args.direction, "Outbound", replacement.val.new))
       IN  IF args.dry_run
           THEN /\ calls' = Append(calls, Call("add_firewall_rule", "-", "ok", body, None))
                /\ firewalls' = firewalls
           ELSE /\ calls' = Append(calls, Call("add_firewall_rule", "POST", "ok", body,
                                       Some(Response(204, ""))))
                /\ firewalls' = Added(firewalls, body)
    /\ pc' = "confirm"
    /\ UNCHANGED <<cmd, args, run, before, result, droplets, meddled,
                   firewall, ids, replacement, pageVars, dnsVars>>

\* Variant of RuleChangeRejected: the error of delete_firewall_rule is dropped
\* and the add follows.
RuleChangeRejected_DeleteIgnored ==
    /\ cmd = "firewall" /\ pc \in {"delete_firewall_rule", "add_firewall_rule"}
    /\ ~args.dry_run
    /\ LET rule == IF pc = "delete_firewall_rule"
                   THEN replacement.val.old ELSE replacement.val.new
           body == RuleBody(firewall.val.id, Slot(args.direction, "Inbound", rule),
                            Slot(args.direction, "Outbound", rule))
           kind == IF pc = "delete_firewall_rule"
                   THEN "DeleteFirewallRule" ELSE "CreateFirewallRule"
       IN  \E code \in OtherStatus :
              /\ calls' = Append(calls, Call(pc, IF pc = "delete_firewall_rule"
                                                 THEN "DELETE" ELSE "POST",
                                             kind, body,
                                             Some(Response(code, "ErrorResponse"))))
              /\ IF pc = "delete_firewall_rule"
                 THEN pc' = "add_firewall_rule" /\ result' = result
                 ELSE pc' = "done" /\ result' = ClientErr(kind)
    /\ UNCHANGED <<cmd, args, run, before, fwVars, pageVars, dnsVars>>

\* Variant of RuleChangeRejected: the error of add_firewall_rule is dropped and
\* the re-fetch follows.
RuleChangeRejected_AddIgnored ==
    /\ cmd = "firewall" /\ pc \in {"delete_firewall_rule", "add_firewall_rule"}
    /\ ~args.dry_run
    /\ LET rule == IF pc = "delete_firewall_rule"
                   THEN replacement.val.old ELSE replacement.val.new
           body == RuleBody(firewall.val.id, Slot(args.direction, "Inbound", rule),
                            Slot(args.direction, "Outbound", rule))
           kind == IF pc = "delete_firewall_rule"
                   THEN "DeleteFirewallRule" ELSE "CreateFirewallRule"
       IN  \E code \in OtherStatus :
              /\ calls' = Append(calls, Call(pc, IF pc = "delete_firewall_rule"
                                                 THEN "DELETE" ELSE "POST",
                                             kind, body,
                                             Some(Response(code, "ErrorResponse"))))
              /\ IF pc = "add_firewall_rule"
                 THEN pc' = "confirm" /\ result' = result
                 ELSE pc' = "done" /\ result' = ClientErr(kind)
    /\ UNCHANGED <<cmd, args, run, before, fwVars, pageVars, dnsVars>>

\* Variant of RuleChangeRejected: the status is tested with is_success(), so
\* an answer of 200 counts as done.
RuleChangeRejected_AnySuccess ==
    /\ cmd = "firewall" /\ pc \in {"delete_firewall_rule", "add_firewall_rule"}
    /\ ~args.dry_run
    /\ LET rule == IF pc = "delete_firewall_rule"
                   THEN replacement.val.old ELSE replacement.val.new
           body == RuleBody(firewall.val.id, Slot(args.direction, "Inbound", rule),
                            Slot(args.direction, "Outbound", rule))
           kind == IF pc = "delete_firewall_rule"
                   THEN "DeleteFirewallRule" ELSE "CreateFirewallRule"
       IN  \E code \in OtherStatus :
              /\ calls' = Append(calls, Call(pc, IF pc = "delete_firewall_rule"
                                                 THEN "DELETE" ELSE "POST",
                                             IF code = 200 THEN "ok" ELSE kind, body,
                                             Some(Response(code, "ErrorResponse"))))
              /\ IF code = 200
                 THEN /\ result' = result
                      /\ pc' = IF pc = "delete_firewall_rule"
                               THEN "add_firewall_rule" ELSE "confirm"
                 ELSE /\ result' = ClientErr(kind)
                      /\ pc' = "done"
    /\ UNCHANGED <<cmd, args, run, before, fwVars, pageVars, dnsVars>>

\* A non-dry-run delete_firewall_rule or add_firewall_rule is answered with a
\* status other than 204 and a decodable error body: the rules are not
\* changed and the method returns its own Error variant.
RuleChangeRejected ==
    /\ cmd = "firewall" /\ pc \in {"delete_firewall_rule", "add_firewall_rule"}
    /\ ~args.dry_run
    /\ LET rule == IF pc = "delete_firewall_rule"
                   THEN replacement.val.old ELSE replacement.val.new
           body == RuleBody(firewall.val.id, Slot(args.direction, "Inbound", rule),
                            Slot(args.direction, "Outbound", rule))
           kind == IF pc = "delete_firewall_rule"
                   THEN "DeleteFirewallRule" ELSE "CreateFirewallRule"
       IN  \E code \in OtherStatus :
              /\ calls' = Append(calls, Call(pc, IF pc = "delete_firewall_rule"
                                                 THEN "DELETE" ELSE "POST",
                                             kind, body,
                                             Some(Response(code, "ErrorResponse"))))
              /\ result' = ClientErr(kind)
    /\ pc' = "done"
    /\ UNCHANGED <<cmd, args, run, before, fwVars, pageVars, dnsVars>>

\* A non-dry-run delete_firewall_rule or add_firewall_rule fails in send()
\* (no answer; the server may or may not have applied the change) or in
\* decoding the body of an answer other than 204 as an ErrorResponse.
RuleChangeFails ==
    /\ cmd = "firewall" /\ pc \in {"delete_firewall_rule", "add_firewall_rule"}
    /\ ~args.dry_run
    /\ LET rule == IF pc = "delete_firewall_rule"
                   THEN replacement.val.old ELSE replacement.val.new
           body == RuleBody(firewall.val.id, Slot(args.direction, "Inbound", rule),
                            Slot(args.direction, "Outbound", rule))
           applied == IF pc = "delete_firewall_rule"
                      THEN Deleted(firewalls, body) ELSE Added(firewalls, body)
       IN  \E resp \in {None} \cup {Some(Response(code, b)) :
                                        code \in OtherStatus, b \in {"", "other"}} :
              /\ calls' = Append(calls, Call(pc, IF pc = "delete_firewall_rule"
                                                 THEN "DELETE" ELSE "POST",
                                             "Request", body, resp))
              /\ firewalls' \in IF IsNone(resp) THEN {firewalls, applied} ELSE {firewalls}
    /\ result' = ClientErr("Request")
    /\ pc' = "done"
    /\ UNCHANGED <<cmd, args, run, before, droplets, meddled, firewall, ids, replacement,
                   pageVars, dnsVars>>

\* Variant of ConfirmFirewall: the firewall fetched at Locate is returned.
ConfirmFirewall_ReturnsLocated ==
    /\ cmd = "firewall" /\ pc = "confirm"
    /\ LET found == Find(firewalls, firewall.val.name)
       IN  /\ calls' = Append(calls, Call("get_firewall", "GET", "ok", firewall.val.name, found))
           /\ result' = IF IsSome(found) THEN Ok(firewall.val)
                        ELSE Panic("Unable to find firewall after modifying!")
    /\ pc' = "done"
    /\ UNCHANGED <<cmd, args, run, before, fwVars, pageVars, dnsVars>>

\* Variant of ConfirmFirewall: the re-fetched firewall is checked for the new
\* rule, and its absence is an error.
ConfirmFirewall_Verifies ==
    /\ cmd = "firewall" /\ pc = "confirm"
    /\ LET found == Find(firewalls, firewall.val.name)
           rules == RulesOf(args.direction, found.val)
       IN  /\ calls' = Append(calls, Call("get_firewall", "GET", "ok", firewall.val.name, found))
           /\ result' = IF IsNone(found)
                        THEN Panic("Unable to find firewall after modifying!")
                        ELSE IF args.dry_run
                                \/ (IsSome(rules) /\ Contains(rules.val, replacement.val.new))
                        THEN Ok(found.val)
                        ELSE ClientErr("CreateFirewallRule")
    /\ pc' = "done"
    /\ UNCHANGED <<cmd, args, run, before, fwVars, pageVars, dnsVars>>

\* update_firewall: the re-fetch by name and Ok(updated_firewall).
ConfirmFirewall ==
    /\ cmd = "firewall" /\ pc = "confirm"
    /\ LET found == Find(firewalls, firewall.val.name)
       IN  /\ calls' = Append(calls, Call("get_firewall", "GET", "ok", firewall.val.name, found))
           /\ result' = IF IsSome(found) THEN Ok(found.val)
                        ELSE Panic("Unable to find firewall after modifying!")
    /\ pc' = "done"
    /\ UNCHANGED <<cmd, args, run, before, fwVars, pageVars, dnsVars>>

\* The most changes another API client makes to the firewall during a run.
MaxMeddling == 1

\* update_firewall runs against a remote firewall that is not locked: between
\* two calls of this run another API client can change it.
Meddling ==
    /\ cmd = "firewall"
    /\ pc \in {"delete_firewall_rule", "add_firewall_rule", "confirm"}
    /\ meddled < MaxMeddling
    /\ IsSome(Find(firewalls, args.name))

\* Another client adds a rule to the requested direction of the firewall.
ThirdPartyAddsRule ==
    /\ Meddling
    /\ \E r \in RuleSet(args.direction) :
          /\ firewalls' = Added(firewalls, RuleBody(Find(firewalls, args.name).val.id,
                                                    Slot(args.direction, "Inbound", r),
                                                    Slot(args.direction, "Outbound", r)))
          /\ firewalls' # firewalls
    /\ meddled' = meddled + 1
    /\ UNCHANGED <<cmd, mainVars, droplets, firewall, ids, replacement, pageVars, dnsVars>>

\* Another client deletes a rule of the requested direction of the firewall.
ThirdPartyDeletesRule ==
    /\ Meddling
    /\ LET fw == Find(firewalls, args.name).val
           rules == RulesOf(args.direction, fw)
       IN  /\ IsSome(rules)
           /\ \E i \in 1..Len(rules.val) :
                 firewalls' = Deleted(firewalls, RuleBody(fw.id,
                                          Slot(args.direction, "Inbound", rules.val[i]),
                                          Slot(args.direction, "Outbound", rules.val[i])))
    /\ meddled' = meddled + 1
    /\ UNCHANGED <<cmd, mainVars, droplets, firewall, ids, replacement, pageVars, dnsVars>>

\* Another client gives the firewall another name.
ThirdPartyRenamesFirewall ==
    /\ Meddling
    /\ firewalls' = [i \in 1..Len(firewalls) |->
                        IF firewalls[i].name = args.name
                        THEN [firewalls[i] EXCEPT !.name = "Renamed"]
                        ELSE firewalls[i]]
    /\ meddled' = meddled + 1
    /\ UNCHANGED <<cmd, mainVars, droplets, firewall, ids, replacement, pageVars, dnsVars>>

\* Another client deletes the firewall.
ThirdPartyRemovesFirewall ==
    /\ Meddling
    /\ firewalls' = SelectSeq(firewalls, LAMBDA f : f.name # args.name)
    /\ meddled' = meddled + 1
    /\ UNCHANGED <<cmd, mainVars, droplets, firewall, ids, replacement, pageVars, dnsVars>>

IdleMain ==
    /\ args = None
    /\ run = 0
    /\ pc = "idle"
    /\ calls = <<>>
    /\ result = Running
    /\ before = <<>>

vars == <<cmd, pageVars, mainVars, dnsVars, fwVars>>

(***************************************************************************)
(* The specifications.                                                     *)
(***************************************************************************)
PageInit == InitPage /\ IdleMain /\ IdleDns /\ IdleFw

SpecPage == PageInit /\ [][NextPage]_vars

\* main: the subcommand decides which of the two runs happens.
Init ==
    \/ InitDns /\ IdlePage /\ IdleFw
    \/ InitFw /\ IdlePage /\ IdleDns

Next ==
    \/ GetDomain
    \/ GetRecord
    \/ DnsReadFails
    \/ UpdateRecord
    \/ CreateRecord
    \/ DnsWriteFails
    \/ DnsInvokeAgain
    \/ LocateFirewall
    \/ ResolveDroplets
    \/ ResolveClusters
    \/ ResolveBalancers
    \/ ResolveFails
    \/ GetFirewallFails
    \/ DeleteFirewallRule
    \/ AddFirewallRule
    \/ RuleChangeRejected
    \/ RuleChangeFails
    \/ ConfirmFirewall

Spec == Init /\ [][Next]_vars

\* The firewall subcommand run while another client of the API changes the
\* same firewall.
RaceInit == InitFw /\ IdlePage /\ IdleDns

NextRace ==
    \/ LocateFirewall
    \/ ResolveDroplets
    \/ ResolveClusters
    \/ ResolveBalancers
    \/ ResolveFails
    \/ GetFirewallFails
    \/ DeleteFirewallRule
    \/ AddFirewallRule
    \/ RuleChangeRejected
    \/ RuleChangeFails
    \/ ConfirmFirewall
    \/ ThirdPartyAddsRule
    \/ ThirdPartyDeletesRule
    \/ ThirdPartyRenamesFirewall
    \/ ThirdPartyRemovesFirewall

SpecRace == RaceInit /\ [][NextRace]_vars

\* Every traversal and every run, each step of which happens once it can:
\* the blocking client's send() returns an answer or an error (reqwest's
\* default timeout), and the code between two requests does not block.
LiveInit == PageInit \/ Init

LiveNext ==
    \/ GetAllObjectsLoop
    \/ GetAllObjectsReturn
    \/ GetObjectByNameLoop
    \/ GetObjectByNameReturn
    \/ GetDomainLoop
    \/ GetDomainReturn
    \/ GetPageFails
    \/ GetDomain
    \/ GetRecord
    \/ DnsReadFails
    \/ UpdateRecord
    \/ CreateRecord
    \/ DnsWriteFails
    \/ DnsInvokeAgain
    \/ LocateFirewall
    \/ ResolveDroplets
    \/ ResolveClusters
    \/ ResolveBalancers
    \/ ResolveFails
    \/ GetFirewallFails
    \/ DeleteFirewallRule
    \/ AddFirewallRule
    \/ RuleChangeRejected
    \/ RuleChangeFails
    \/ ConfirmFirewall

SpecLive == LiveInit /\ [][LiveNext]_vars /\ WF_vars(LiveNext)

(***************************************************************************)
(* Definitions the properties below are stated with.                       *)
(***************************************************************************)
Last(s) == s[Len(s)]
Upto(n) == [i \in 1..n |-> i]

\* The page holds an item the predicate accepts.
PageMatches(j) == \E i \in 1..Len(chain[j].items) : chain[j].items[i].name = name

\* Number of the first page holding a match, 0 when no page holds one.
FirstMatchPage ==
    IF \E j \in 1..Len(chain) : PageMatches(j)
    THEN CHOOSE j \in 1..Len(chain) : PageMatches(j) /\ \A k \in 1..(j - 1) : ~PageMatches(k)
    ELSE 0

\* The items of pages 1..n, in page order.
RECURSIVE ItemsThrough(_)
ItemsThrough(n) == IF n = 0 THEN <<>> ELSE ItemsThrough(n - 1) \o chain[n].items

\* Number of calls of a client method in invocation r.
NumCalls(r, c) == Cardinality({i \in 1..Len(calls) : calls[i].run = r /\ calls[i].call = c})
Mutations(r) == NumCalls(r, "update_record") + NumCalls(r, "create_record")

\* Both reads of invocation r returned, the domain being there.
ReadsDone(r) ==
    \E i \in 1..Len(calls) :
        calls[i].run = r /\ calls[i].call = "get_record" /\ calls[i].outcome = "ok"

\* No call of invocation r failed in transport.
NoTransportError(r) ==
    \A i \in 1..Len(calls) : calls[i].run = r => calls[i].outcome # "Request"

\* The record of the requested name a zone holds first: the one located.
Located(z) ==
    LET at == {i \in 1..Len(z) : z[i].name = args.record}
    IN  IF at = {} THEN None
        ELSE Some(z[CHOOSE i \in at : \A j \in at : i <= j])

\* The located record holds an address other than the desired one.
HoldsOther(loc) ==
    /\ IsSome(loc)
    /\ ParseIp(loc.val.data).status = "ok"
    /\ ParseIp(loc.val.data).value # args.ip

\* The located record holds the desired address.
HoldsDesired(loc) ==
    /\ IsSome(loc)
    /\ ParseIp(loc.val.data).status = "ok"
    /\ ParseIp(loc.val.data).value = args.ip

\* The body update_firewall hands to the firewall client for one rule.
BodyOf(rule) ==
    RuleBody(firewall.val.id, Slot(args.direction, "Inbound", rule),
             Slot(args.direction, "Outbound", rule))

\* The remote firewall of the fetched id.
RemoteFirewall == firewalls[CHOOSE i \in 1..Len(firewalls) : firewalls[i].id = firewall.val.id]

\* The rule list holds a rule for the requested (protocol, ports).
HasKey(rules) ==
    \E i \in 1..Len(rules) : rules[i].ports = args.port /\ rules[i].protocol = args.protocol
KeyCount(rules) ==
    Cardinality({i \in 1..Len(rules) :
                    rules[i].ports = args.port /\ rules[i].protocol = args.protocol})

\* The reads a firewall run makes before it changes a rule.
ExpectedReads ==
    <<"get_firewall">>
    \o (IF IsSome(args.droplets) THEN <<"get_droplets">> ELSE <<>>)
    \o (IF IsSome(args.kubernetes_clusters) THEN <<"get_kubernetes_clusters">> ELSE <<>>)
    \o (IF IsSome(args.load_balancers) THEN <<"get_load_balancers">> ELSE <<>>)

CallNames == [i \in 1..Len(calls) |-> calls[i].call]
CallHttp == [i \in 1..Len(calls) |-> calls[i].http]

\* The addresses of the computed new rule.
NewAddresses == TargetOf(args.direction, replacement.val.new).addresses.val

\* The rule changes asked of the firewall client.
RuleChanges == {"delete_firewall_rule", "add_firewall_rule"}

\* The slot of a rule change's body for a direction.
SlotOf(direction, body) ==
    IF direction = "Inbound" THEN body.inbound_rules ELSE body.outbound_rules

\* The addresses the caller supplied.
GivenAddresses == IF IsSome(args.addresses) THEN args.addresses.val ELSE <<>>

\* The firewall fetched at Locate has no rule to replace.
LocatedLacksRule ==
    /\ IsSome(firewall)
    /\ LET rules == RulesOf(args.direction, firewall.val)
       IN  IsNone(rules) \/ ~HasKey(rules.val)

\* The run's delete and add were both answered with success and the
\* re-fetch returned.
Refetched ==
    /\ cmd = "firewall" /\ pc = "done"
    /\ Len(calls) >= 4
    /\ Last(calls).call = "get_firewall" /\ Last(calls).outcome = "ok"
    /\ calls[Len(calls) - 1].call = "add_firewall_rule"

(***************************************************************************)
(* Properties.                                                             *)
(***************************************************************************)

\* C1: get_object_by_name over a chain whose first page with a matching item
\* is page k requests pages 1, 2, .. in order, never more than k of them, and
\* has requested exactly pages 1..k when it returns Ok; page k + 1 is never
\* requested, also when page k carries a next link.
C1_FindStopsAtMatch ==
    (cmd = "page" /\ op = "get_object_by_name" /\ FirstMatchPage # 0) =>
        /\ requests = Upto(Len(requests))
        /\ Len(requests) <= FirstMatchPage
        /\ (ret.status = "ok" => requests = Upto(FirstMatchPage))

C1_Witness ==
    /\ cmd = "page" /\ op = "get_object_by_name"
    /\ Len(chain) = 3 /\ FirstMatchPage = 2
    /\ HasNext(chain[2].links)
    /\ ret.status = "ok"
    /\ requests = <<1, 2>>

\* C2: get_all_objects over a chain of N pages, every fetch succeeding,
\* requests exactly pages 1..N in order and returns the pages' items
\* concatenated in page order; one empty page without next gives the empty
\* list.
C2_CollectAllPages ==
    (cmd = "page" /\ op = "get_all_objects" /\ ret.status = "ok") =>
        /\ requests = Upto(Len(chain))
        /\ ret.value = ItemsThrough(Len(chain))
        /\ (Len(chain) = 1 /\ chain[1].items = <<>> => ret.value = <<>>)

C2_Witness ==
    /\ cmd = "page" /\ op = "get_all_objects"
    /\ Len(chain) = 3
    /\ \A j \in 1..3 : Len(chain[j].items) = 2
    /\ ret.status = "ok"
    /\ Len(ret.value) = 6

\* C3: in a firewall run, add_firewall_rule is only called right after a
\* delete_firewall_rule that returned Ok, and the re-fetch only right after
\* an add_firewall_rule that returned Ok; a run that succeeds has ended with
\* delete_firewall_rule(the old rule), add_firewall_rule(the computed new
\* rule), get_firewall(the firewall's name), in this order, the old rule
\* being a rule of the firewall as fetched.
C3_DeleteAddRefetch ==
    cmd = "firewall" =>
        /\ \A i \in 1..Len(calls) :
              /\ calls[i].call = "add_firewall_rule" =>
                    /\ i > 1
                    /\ calls[i - 1].call = "delete_firewall_rule"
                    /\ calls[i - 1].outcome = "ok"
              /\ (calls[i].call = "get_firewall" /\ i > 1) =>
                    /\ calls[i - 1].call = "add_firewall_rule"
                    /\ calls[i - 1].outcome = "ok"
        /\ result.status = "ok" =>
              LET n == Len(calls)
              IN  /\ n >= 4
                  /\ calls[n - 2].call = "delete_firewall_rule"
                  /\ calls[n - 2].payload = BodyOf(replacement.val.old)
                  /\ Contains(RulesOf(args.direction, firewall.val).val, replacement.val.old)
                  /\ calls[n - 1].call = "add_firewall_rule"
                  /\ calls[n - 1].payload = BodyOf(replacement.val.new)
                  /\ calls[n].call = "get_firewall"
                  /\ calls[n].payload = firewall.val.name
                  /\ NumCalls(1, "delete_firewall_rule") = 1
                  /\ NumCalls(1, "add_firewall_rule") = 1
                  /\ NumCalls(1, "get_firewall") = 2

C3_Witness ==
    /\ cmd = "firewall" /\ ~args.dry_run
    /\ result.status = "ok"
    /\ replacement.val.old # replacement.val.new
    /\ Last(calls).call = "get_firewall"

C5_Upsert ==
    (cmd = "dns" /\ pc = "done" /\ ~args.dry_run /\ ReadsDone(run)) =>
        LET loc == Located(before[run].zone)
        IN  /\ IsNone(loc) =>
                  /\ NumCalls(run, "create_record") = 1
                  /\ NumCalls(run, "update_record") = 0
                  /\ result.status = "ok" =>
                        /\ ParseIp(result.value.data) = Ok(args.ip)
                        /\ (faithful => result.value.data = IpToString(args.ip))
            /\ HoldsOther(loc) =>
                  /\ NumCalls(run, "update_record") = 1
                  /\ NumCalls(run, "create_record") = 0

C5_Witness ==
    /\ cmd = "dns" /\ pc = "done" /\ ~args.dry_run /\ run = 1
    /\ IsNone(Located(before[1].zone))
    /\ Len(before[1].zone) > 0
    /\ result.status = "ok"
    /\ Last(calls).call = "create_record"

\* C6: when the located record's data parses to the desired address, run_dns
\* calls neither update_record nor create_record, leaves the zone as it was
\* and returns the located record as fetched.
C6_NoOp ==
    (cmd = "dns" /\ pc = "done" /\ ReadsDone(run) /\ HoldsDesired(Located(before[run].zone))) =>
        /\ Mutations(run) = 0
        /\ zone = before[run].zone
        /\ result = Ok(Located(before[run].zone).val)

C6_Witness ==
    /\ cmd = "dns" /\ pc = "done" /\ run = 1
    /\ ReadsDone(1)
    /\ HoldsDesired(Located(zone))
    /\ Located(zone).val.data # IpToString(args.ip)
    /\ result.status = "ok"

\* C7: two non-dry-run invocations with the same command line against a
\* backend that applies writes, no call failing, the domain existing, the
\* record at first absent or holding another address: the first invocation
\* makes exactly one mutating call, the second none, and the zone after the
\* second is the zone after the first.
C7_Idempotent ==
    (/\ cmd = "dns" /\ pc = "done" /\ run = 2
     /\ ~args.dry_run /\ faithful
     /\ ReadsDone(1) /\ NoTransportError(1)
     /\ ReadsDone(2) /\ NoTransportError(2)
     /\ (IsNone(Located(before[1].zone)) \/ HoldsOther(Located(before[1].zone)))) =>
        /\ Mutations(1) = 1
        /\ Mutations(2) = 0
        /\ zone = before[2].zone
        /\ HoldsDesired(Located(zone))

C7_Witness ==
    /\ cmd = "dns" /\ pc = "done" /\ run = 2
    /\ ~args.dry_run /\ faithful
    /\ HoldsOther(Located(before[1].zone))
    /\ Mutations(1) = 1 /\ Mutations(2) = 0
    /\ result.status = "ok"
    /\ zone = before[2].zone /\ zone # before[1].zone

\* C8: a non-dry-run update_record or create_record whose response echoes
\* data parsing to another address than the requested one returns UpdateDns
\* or CreateDns, and run_dns ends with that error, returning no record.
C8_WriteVerified ==
    cmd = "dns" =>
        \A i \in 1..Len(calls) :
            (/\ calls[i].call \in {"update_record", "create_record"}
             /\ IsSome(calls[i].resp)
             /\ ParseIp(calls[i].resp.val.data).status = "ok"
             /\ ParseIp(calls[i].resp.val.data).value # args.ip) =>
                /\ calls[i].outcome = IF calls[i].call = "update_record"
                                      THEN "UpdateDns" ELSE "CreateDns"
                /\ (i = Len(calls) /\ calls[i].run = run) =>
                      /\ pc = "done"
                      /\ result = ClientErr(calls[i].outcome)

C8_Witness ==
    /\ cmd = "dns" /\ pc = "done"
    /\ result = ClientErr("UpdateDns")
    /\ Last(calls).call = "update_record" /\ Last(calls).http = "PUT"
    /\ ParseIp(Last(calls).resp.val.data).status = "ok"

\* C9: in dry-run mode no PUT, POST or DELETE request is ever sent and the
\* remote records and firewall rules stay what they were, while the reads
\* are made: get_domain and get_record in a DNS run that ends Ok; in a
\* firewall run that ends Ok, get_firewall, the listing of every supplied
\* name list, then the two suppressed rule changes and get_firewall again.
C9_DryRun ==
    (cmd \in {"dns", "firewall"} /\ args.dry_run) =>
        /\ \A i \in 1..Len(calls) : calls[i].http \in {"GET", "-"}
        /\ zone = before[1].zone
        /\ firewalls = before[1].firewalls
        /\ (cmd = "dns" /\ pc = "done" /\ result.status = "ok") =>
              LET mine == SelectSeq(calls, LAMBDA c : c.run = run)
              IN  /\ Len(mine) >= 2
                  /\ mine[1].call = "get_domain" /\ mine[1].http = "GET"
                  /\ mine[2].call = "get_record" /\ mine[2].http = "GET"
        /\ (cmd = "firewall" /\ result.status = "ok") =>
              /\ CallNames = ExpectedReads
                    \o <<"delete_firewall_rule", "add_firewall_rule", "get_firewall">>
              /\ CallHttp = [i \in 1..Len(ExpectedReads) |-> "GET"] \o <<"-", "-", "GET">>

C9_Witness ==
    /\ cmd = "firewall" /\ args.dry_run
    /\ result.status = "ok"
    /\ IsSome(args.droplets) /\ IsSome(args.load_balancers)
    /\ Len(calls) = 6
    /\ replacement.val.old # replacement.val.new

InRequestOrder(got, ns, objs) ==
    /\ IsSome(got)
    /\ Len(got.val) = Len(ns)
    /\ \A i \in 1..Len(ns) :
          /\ \E j \in 1..Len(objs) : objs[j].name = ns[i] /\ objs[j].id = got.val[i]
          /\ \A j \in 1..Len(objs) :
                (objs[j].name = ns[i] /\ Count([k \in 1..Len(objs) |-> objs[k].name], ns[i]) = 1)
                    => got.val[i] = objs[j].id

\* The target selector of the computed new rule.
NewTarget == TargetOf(args.direction, replacement.val.new)

\* C11: once the new rule is computed, each supplied name list has been
\* resolved to a list of the same length whose i-th element is the id of an
\* object of the fetched collection named by the i-th requested name (of the
\* only such object when the name occurs once), and these lists are the new
\* rule's droplet_ids, kubernetes_ids and load_balancer_uids.
C11_IdsInRequestOrder ==
    (cmd = "firewall" /\ IsSome(replacement)) =>
        /\ IsSome(args.droplets) =>
              /\ InRequestOrder(ids.droplet_ids, args.droplets.val, droplets)
              /\ NewTarget.droplet_ids = ids.droplet_ids
        /\ IsSome(args.kubernetes_clusters) =>
              /\ InRequestOrder(ids.kubernetes_ids, args.kubernetes_clusters.val, Clusters)
              /\ NewTarget.kubernetes_ids = ids.kubernetes_ids
        /\ IsSome(args.load_balancers) =>
              /\ InRequestOrder(ids.load_balancer_uids, args.load_balancers.val, Balancers)
              /\ NewTarget.load_balancer_uids = ids.load_balancer_uids

C11_Witness ==
    /\ cmd = "firewall" /\ IsSome(replacement)
    /\ args.droplets = Some(<<"b", "a">>)
    /\ Len(droplets) = 2
    /\ NewTarget.droplet_ids = Some(<<2, 1>>)
    /\ NewTarget.kubernetes_ids = Some(<<"k-uuid">>)

\* The listings the name resolutions make and the name list each resolves.
Listings == {"get_droplets", "get_kubernetes_clusters", "get_load_balancers"}
RequestedOf(c) ==
    CASE c = "get_droplets" -> args.droplets
      [] c = "get_kubernetes_clusters" -> args.kubernetes_clusters
      [] OTHER -> args.load_balancers

\* Call i is a listing that returned a collection lacking a requested name.
Unresolved(i) ==
    /\ calls[i].call \in Listings
    /\ calls[i].outcome = "ok"
    /\ \E k \in 1..Len(RequestedOf(calls[i].call).val) :
          \A j \in 1..Len(calls[i].resp.val) :
              calls[i].resp.val[j].name # RequestedOf(calls[i].call).val[k]

\* No rule change was asked of the firewall client.
NoRuleChange ==
    NumCalls(1, "delete_firewall_rule") = 0 /\ NumCalls(1, "add_firewall_rule") = 0

ListingsDue(c) == IF IsSome(RequestedOf(c)) THEN 1 ELSE 0

\* C13: a firewall run never lists a collection whose name list is absent
\* and never lists one more than once, whatever the number of names; the id
\* list of an absent name list is absent; once the new rule is computed,
\* each supplied name list (also an empty one) has cost exactly one listing,
\* made in the order droplets, clusters, load balancers.
C13_OneListingPerSelector ==
    cmd = "firewall" =>
        /\ \A c \in Listings : NumCalls(1, c) <= ListingsDue(c)
        /\ IsNone(args.droplets) => IsNone(ids.droplet_ids)
        /\ IsNone(args.kubernetes_clusters) => IsNone(ids.kubernetes_ids)
        /\ IsNone(args.load_balancers) => IsNone(ids.load_balancer_uids)
        /\ IsSome(replacement) =>
              /\ \A c \in Listings : NumCalls(1, c) = ListingsDue(c)
              /\ SelectSeq(CallNames, LAMBDA c : c \in Listings) = Tail(ExpectedReads)

C13_Witness ==
    /\ cmd = "firewall" /\ IsSome(replacement)
    /\ args.droplets = Some(<<"a", "b">>)
    /\ IsNone(args.kubernetes_clusters)
    /\ IsSome(args.load_balancers)
    /\ NumCalls(1, "get_droplets") = 1
    /\ NumCalls(1, "get_kubernetes_clusters") = 0
    /\ NumCalls(1, "get_load_balancers") = 1

\* The target selector of the rule that is replaced.
OldTarget == TargetOf(args.direction, replacement.val.old)

\* C14: in the computed new rule, droplet_ids, kubernetes_ids and
\* load_balancer_uids are absent for every name list that was not supplied,
\* whatever the replaced rule carries for that selector.
C14_UnsuppliedSelectorDropped ==
    (cmd = "firewall" /\ IsSome(replacement)) =>
        /\ IsNone(args.droplets) => IsNone(NewTarget.droplet_ids)
        /\ IsNone(args.kubernetes_clusters) => IsNone(NewTarget.kubernetes_ids)
        /\ IsNone(args.load_balancers) => IsNone(NewTarget.load_balancer_uids)

C14_Witness ==
    /\ cmd = "firewall" /\ IsSome(replacement)
    /\ IsNone(args.droplets) /\ IsNone(args.kubernetes_clusters)
    /\ IsSome(args.load_balancers)
    /\ OldTarget.droplet_ids = Some(<<7>>)
    /\ OldTarget.kubernetes_ids = Some(<<"k-old">>)
    /\ IsNone(NewTarget.droplet_ids) /\ IsNone(NewTarget.kubernetes_ids)
    /\ NewTarget.load_balancer_uids = Some(<<"p-uuid">>)

\* C15: every update_record or create_record call of run_dns comes right
\* after a get_record that returned Ok, itself right after a get_domain that
\* returned an existing domain, all of the same invocation; a get_domain
\* that returns no domain is the last call of its invocation, which has
\* made no get_record and no mutating call and ends with DomainNotFound.
C15_MutationAfterBothReads ==
    cmd = "dns" =>
        \A i \in 1..Len(calls) :
            /\ calls[i].call \in {"update_record", "create_record"} =>
                  /\ i >= 3
                  /\ calls[i - 1].run = calls[i].run
                  /\ calls[i - 1].call = "get_record" /\ calls[i - 1].outcome = "ok"
                  /\ calls[i - 2].run = calls[i].run
                  /\ calls[i - 2].call = "get_domain" /\ calls[i - 2].outcome = "ok"
                  /\ IsSome(calls[i - 2].resp)
            /\ (calls[i].call = "get_domain" /\ calls[i].outcome = "ok"
                    /\ IsNone(calls[i].resp)) =>
                  /\ i < Len(calls) => calls[i + 1].run # calls[i].run
                  /\ NumCalls(calls[i].run, "get_record") = 0
                  /\ Mutations(calls[i].run) = 0
                  /\ calls[i].run = run => pc = "done" /\ result = Err("DomainNotFound")

C15_Witness ==
    /\ cmd = "dns" /\ pc = "done" /\ run = 1 /\ ~args.dry_run
    /\ result = Err("DomainNotFound")
    /\ Len(calls) = 1
    /\ IsNone(Located(zone))
    /\ Len(zone) > 0

\* C16: when the first get_firewall of a firewall run returns no firewall,
\* the run is over with FirewallNotFound and that call is its only call: no
\* listing, no delete_firewall_rule, no add_firewall_rule, and the remote
\* account is what it was.
C16_FirewallNotFound ==
    (cmd = "firewall" /\ Len(calls) >= 1 /\ calls[1].outcome = "ok" /\ IsNone(calls[1].resp)) =>
        /\ calls[1].call = "get_firewall"
        /\ Len(calls) = 1
        /\ pc = "done"
        /\ result = Err("FirewallNotFound")
        /\ \A c \in Listings : NumCalls(1, c) = 0
        /\ NoRuleChange
        /\ IsNone(replacement)
        /\ firewalls = before[1].firewalls

C16_Witness ==
    /\ cmd = "firewall" /\ pc = "done" /\ ~args.dry_run
    /\ Len(firewalls) = 1 /\ firewalls[1].name # args.name
    /\ IsSome(args.droplets)
    /\ result = Err("FirewallNotFound")
    /\ Len(calls) = 1

Answered(i) ==
    /\ calls[i].call \in {"delete_firewall_rule", "add_firewall_rule"}
    /\ calls[i].http # "-"
    /\ IsSome(calls[i].resp)

\* The Error variant of the client method of call i.
OwnError(i) ==
    IF calls[i].call = "delete_firewall_rule" THEN "DeleteFirewallRule" ELSE "CreateFirewallRule"

\* C18 as stated: an answered rule change returns Ok exactly for status 204
\* and its own error, DeleteFirewallRule or CreateFirewallRule, for every
\* other status.
C18_Original ==
    cmd = "firewall" =>
        \A i \in 1..Len(calls) :
            Answered(i) =>
                /\ calls[i].outcome = "ok" <=> calls[i].resp.val.status = 204
                /\ calls[i].resp.val.status # 204 => calls[i].outcome = OwnError(i)

\* C18, amended: an answered rule change returns Ok exactly for status 204;
\* for every other status (200 included) it returns DeleteFirewallRule or
\* CreateFirewallRule when the body decodes as the API's error message, and
\* the Request error of the failed decoding when it does not.
C18_Only204Succeeds ==
    cmd = "firewall" =>
        \A i \in 1..Len(calls) :
            Answered(i) =>
                /\ calls[i].outcome = "ok" <=> calls[i].resp.val.status = 204
                /\ calls[i].resp.val.status # 204 =>
                      calls[i].outcome = IF calls[i].resp.val.body = "ErrorResponse"
                                         THEN OwnError(i) ELSE "Request"

C18_Witness ==
    /\ cmd = "firewall" /\ pc = "done"
    /\ Answered(Len(calls))
    /\ Last(calls).call = "add_firewall_rule"
    /\ Last(calls).resp.val = Response(200, "ErrorResponse")
    /\ Last(calls).outcome = "CreateFirewallRule"
    /\ calls[Len(calls) - 1].resp.val.status = 204

\* The account holds no domain, no firewall of the requested name.
DomainMissing == \A j \in 1..Len(domains) : domains[j].name # args.domain
FirewallMissing ==
    \A j \in 1..Len(before[1].firewalls) : before[1].firewalls[j].name # args.name

\* A requested droplet name is carried by no droplet of the account.
DropletNameMissing ==
    /\ IsSome(args.droplets)
    /\ \E k \in 1..Len(args.droplets.val) :
          \A j \in 1..Len(droplets) : droplets[j].name # args.droplets.val[k]

\* The firewall of the requested name has no rule list in the requested
\* direction, or none for the requested (protocol, ports).
RuleMissing ==
    /\ ~FirewallMissing
    /\ LET fw == Find(before[1].firewalls, args.name).val
           rules == RulesOf(args.direction, fw)
       IN  IsNone(rules) \/ ~HasKey(rules.val)

\* C19: whether or not the run is a dry run, a read that fails in transport
\* is the last call and ends the run with the Request error; with no such
\* failure, a run whose domain is missing ends with DomainNotFound before
\* get_record, a run whose firewall is missing with FirewallNotFound, a run
\* with an unresolvable droplet name or without the requested rule by its
\* panic; none of these runs reaches a mutating call.  Nothing in the
\* statement depends on dry_run: the dry run ends as the real run does.
C19_DryRunReadsStillFail ==
    /\ cmd \in {"dns", "firewall"} =>
          \A i \in 1..Len(calls) :
              (calls[i].http = "GET" /\ calls[i].outcome = "Request") =>
                  /\ i < Len(calls) => calls[i + 1].run # calls[i].run
                  /\ calls[i].run = run => pc = "done" /\ result = ClientErr("Request")
    /\ (cmd = "dns" /\ pc # "get_domain" /\ NoTransportError(run) /\ DomainMissing) =>
          /\ pc = "done" /\ result = Err("DomainNotFound")
          /\ NumCalls(run, "get_record") = 0 /\ Mutations(run) = 0
    /\ (cmd = "firewall" /\ pc # "get_firewall" /\ NoTransportError(1)) =>
          /\ FirewallMissing =>
                pc = "done" /\ result = Err("FirewallNotFound") /\ NoRuleChange
          /\ (~FirewallMissing /\ DropletNameMissing /\ pc # "droplets") =>
                /\ pc = "done" /\ NoRuleChange
                /\ result = Panic("Unable to find object with name")
          /\ (RuleMissing /\ ~DropletNameMissing
                  /\ pc \notin {"droplets", "kubernetes", "load_balancers"}) =>
                /\ pc = "done" /\ NoRuleChange
                /\ result.status = "panic"
                /\ result.message \in {"No rules available", "Unable to find firewall rule"}

C19_Witness ==
    /\ cmd = "firewall" /\ args.dry_run /\ pc = "done"
    /\ ~FirewallMissing /\ DropletNameMissing
    /\ result.status = "panic"
    /\ Last(calls).call = "get_droplets" /\ Last(calls).outcome = "ok"

\* C20 as stated: the create request of a non-dry-run create_record carries
\* the ttl the caller asked for.
C20_CreateUsesRequestedTtl ==
    cmd = "dns" =>
        \A i \in 1..Len(calls) :
            (calls[i].call = "create_record" /\ calls[i].http = "POST"
                /\ calls[i].payload # None) =>
                calls[i].payload.ttl = args.ttl

\* C21: in a traversal no page is requested twice and the pages are
\* requested in chain order; a step in which the fetch of a page fails ends
\* the traversal with the Request error and nothing else as its result,
\* leaving the items collected so far out of it; after an error no further
\* request is made and the result does not change.
C21_FetchErrorAborts ==
    [][/\ requests' = Upto(Len(requests'))
       /\ Len(requests') <= Len(chain)
       /\ (ret.status = "running" /\ ret'.status = "err") =>
             /\ ret' = Err("Request")
             /\ requests' = Append(requests, url)
             /\ objects' = objects /\ obj' = obj
       /\ ret.status = "err" => (requests' = requests /\ ret' = ret)]_vars

C21_Witness ==
    /\ cmd = "page" /\ op = "get_all_objects"
    /\ Len(chain) = 3
    /\ requests = <<1, 2>>
    /\ objects # <<>>
    /\ ret = Err("Request")

\* The first item of `items` the predicate accepts, if any.
FirstMatch(items) ==
    LET at == {i \in 1..Len(items) : items[i].name = name}
    IN  IF at = {} THEN None
        ELSE Some(items[CHOOSE i \in at : \A j \in at : i <= j])

\* C22: a get_object_by_name whose fetches all succeed returns the first
\* item, over the pages in chain order and the items in page order, whose
\* name is the requested one, and Ok(None) exactly when no item of any page
\* has it, as over a single empty page: the first match of the list
\* get_all_objects returns for the same chain.
C22_FindReturnsFirstMatch ==
    (cmd = "page" /\ op = "get_object_by_name" /\ ret.status = "ok") =>
        /\ ret.value = FirstMatch(ItemsThrough(Len(chain)))
        /\ IsNone(ret.value) <=> FirstMatchPage = 0
        /\ (Len(chain) = 1 /\ chain[1].items = <<>>) => ret = Ok(None)

C22_Witness ==
    /\ cmd = "page" /\ op = "get_object_by_name"
    /\ Len(chain) = 3
    /\ chain[1].items # <<>> /\ ~PageMatches(1)
    /\ Len(chain[2].items) = 2 /\ chain[2].items[1].name = name
    /\ chain[2].items[2].name = name
    /\ PageMatches(3)
    /\ ret = Ok(Some(chain[2].items[1]))

\* A non-dry-run firewall run between its delete, which returned Ok, and
\* its add.
InWindow == cmd = "firewall" /\ ~args.dry_run /\ pc = "add_firewall_rule"

\* C23 as stated: between the delete and the add of a non-dry-run firewall
\* run, the firewall holds no rule for the requested (protocol, ports) in
\* the requested direction.
C23_Original ==
    InWindow => ~HasKey(RulesOf(args.direction, RemoteFirewall).val)

\* C23, amended: between the delete and the add of a non-dry-run firewall
\* run on a firewall nobody else changes, the requested direction holds the
\* rules fetched at Locate without the located rule; so it holds no rule for
\* the requested (protocol, ports) when the fetched firewall held exactly
\* one, and still holds the other ones when it held several.  Every run
\* that succeeds has been through this state.
C23_WindowWhenKeyUnique ==
    /\ InWindow =>
          LET fetched == RulesOf(args.direction, firewall.val).val
              left == RulesOf(args.direction, RemoteFirewall).val
          IN  /\ Last(calls).call = "delete_firewall_rule" /\ Last(calls).outcome = "ok"
              /\ left = SelectSeq(fetched, LAMBDA r : r # replacement.val.old)
              /\ KeyCount(fetched) = 1 => ~HasKey(left)
              /\ KeyCount(fetched) > 1 => HasKey(left)
    /\ (cmd = "firewall" /\ ~args.dry_run /\ result.status = "ok") =>
          \E i \in 1..(Len(calls) - 1) :
              /\ calls[i].call = "delete_firewall_rule" /\ calls[i].outcome = "ok"
              /\ calls[i + 1].call = "add_firewall_rule" /\ calls[i + 1].outcome = "ok"

C23_Witness ==
    /\ InWindow
    /\ Len(RulesOf(args.direction, firewall.val).val) = 2
    /\ KeyCount(RulesOf(args.direction, firewall.val).val) = 1
    /\ Len(RulesOf(args.direction, RemoteFirewall).val) = 1
    /\ ~HasKey(RulesOf(args.direction, RemoteFirewall).val)


\* C24 as stated: a run in which another client modified the firewall, and
\* whose own calls were all answered with success, completes without error.
C24_Original ==
    (Refetched /\ meddled > 0) => result.status = "ok"

\* C24: a run does not notice another client changing the rules of its
\* firewall.  Whatever the other client did, the delete carries the old rule
\* as it was in the firewall fetched at Locate and the add the new rule
\* computed from it; when both were answered with success and the firewall
\* is still there under its name, the run returns Ok with the firewall as it
\* is remotely at the re-fetch, which is this run's outcome or what the other
\* client made of it.  When the firewall is no longer there under its name,
\* the run ends in the panic of the re-fetch.
C24_RaceUndetected ==
    cmd = "firewall" =>
        /\ \A i \in 1..Len(calls) :
              /\ calls[i].call = "delete_firewall_rule" =>
                    /\ calls[i].payload = BodyOf(replacement.val.old)
                    /\ Contains(RulesOf(args.direction, firewall.val).val, replacement.val.old)
              /\ calls[i].call = "add_firewall_rule" =>
                    calls[i].payload = BodyOf(replacement.val.new)
        /\ Refetched =>
              LET now == Find(firewalls, firewall.val.name)
              IN  /\ calls[Len(calls) - 2].call = "delete_firewall_rule"
                  /\ IsSome(now) => result = Ok(now.val)
                  /\ IsNone(now) => result = Panic("Unable to find firewall after modifying!")

\* Another client deleted the new rule after the add: the run returns Ok
\* with a firewall that does not hold the rule it added.
C24_Witness ==
    /\ Refetched /\ ~args.dry_run /\ meddled = 1
    /\ result.status = "ok"
    /\ ~Contains(RulesOf(args.direction, result.value).val, replacement.val.new)


\* C25: every delete_firewall_rule and add_firewall_rule call of a firewall
\* run, dry or not, carries the id of the firewall fetched at Locate, a list
\* of exactly one rule in the slot of the requested direction (the old rule
\* for the delete, the new rule for the add) and nothing in the slot of the
\* other direction.
C25_SlotDiscipline ==
    cmd = "firewall" =>
        \A i \in 1..Len(calls) :
            calls[i].call \in RuleChanges =>
                LET mine == SlotOf(args.direction, calls[i].payload)
                    other == SlotOf(Other(args.direction), calls[i].payload)
                IN  /\ calls[i].payload.id = firewall.val.id
                    /\ IsSome(mine)
                    /\ Len(mine.val) = 1
                    /\ mine.val[1] = IF calls[i].call = "delete_firewall_rule"
                                     THEN replacement.val.old ELSE replacement.val.new
                    /\ IsNone(other)

C25_Witness ==
    /\ cmd = "firewall" /\ args.direction = "Outbound" /\ ~args.dry_run
    /\ result.status = "ok"
    /\ NumCalls(1, "delete_firewall_rule") = 1 /\ NumCalls(1, "add_firewall_rule") = 1
    /\ \A i \in 1..Len(calls) :
          calls[i].call \in RuleChanges =>
              /\ IsNone(calls[i].payload.inbound_rules)
              /\ Len(calls[i].payload.outbound_rules.val) = 1

\* C26: the computed new rule has the protocol, the ports and the tags of
\* the old rule and no field the old rule lacks; the old rule is the first
\* rule of the requested port and protocol in the firewall fetched at
\* Locate, field for field.
C26_NewRuleCopiesOld ==
    (cmd = "firewall" /\ IsSome(replacement)) =>
        LET old == replacement.val.old
            new == replacement.val.new
            fetched == RulesOf(args.direction, firewall.val).val
        IN  /\ new.protocol = old.protocol
            /\ new.ports = old.ports
            /\ NewTarget.tags = OldTarget.tags
            /\ DOMAIN new = DOMAIN old
            /\ Contains(fetched, old)
            /\ Some(old) = FindRule(fetched, args.port, args.protocol)

C26_Witness ==
    /\ cmd = "firewall" /\ IsSome(replacement)
    /\ OldTarget.tags = Some(<<"bar">>)
    /\ NewTarget.tags = Some(<<"bar">>)
    /\ NewTarget.addresses # OldTarget.addresses
    /\ NewTarget.droplet_ids # OldTarget.droplet_ids

\* C27: the addresses of the computed new rule are the caller's addresses in
\* their order, followed by the current address as a string when that string
\* is not one of them, and by nothing when it is; no address of the old rule
\* is in the new rule unless the caller supplied it or it is the current one.
C27_AddressesGivenThenIp ==
    (cmd = "firewall" /\ IsSome(replacement)) =>
        LET ip_str == IpToString(args.ip)
        IN  /\ IsSome(NewTarget.addresses)
            /\ NewAddresses = GivenAddresses \o (IF Contains(GivenAddresses, ip_str)
                                                 THEN <<>> ELSE <<ip_str>>)
            /\ \A k \in 1..Len(OldTarget.addresses.val) :
                  Contains(NewAddresses, OldTarget.addresses.val[k]) =>
                      \/ Contains(GivenAddresses, OldTarget.addresses.val[k])
                      \/ OldTarget.addresses.val[k] = ip_str

C27_Witness ==
    /\ cmd = "firewall" /\ IsSome(replacement)
    /\ OldTarget.addresses = Some(<<"9.9.9.9">>)
    /\ GivenAddresses = <<"::1">>
    /\ NewAddresses = <<"::1", "8.8.8.8">>

\* Every call of the run returned and every supplied name was resolved.
ReadsResolved ==
    /\ CallNames = ExpectedReads
    /\ \A i \in 1..Len(calls) : calls[i].outcome = "ok" /\ ~Unresolved(i)

\* C28: when the firewall fetched at Locate has no rule list for the
\* requested direction, or no rule of the requested port and protocol in it,
\* no new rule is computed and delete_firewall_rule and add_firewall_rule
\* are never called; the run does not end Ok, and when every read returned
\* and every name was resolved it ends in the panic of the missing list or
\* of the missing rule.
C28_MissingRuleFatal ==
    (cmd = "firewall" /\ LocatedLacksRule) =>
        /\ IsNone(replacement)
        /\ NoRuleChange
        /\ pc \notin {"delete_firewall_rule", "add_firewall_rule", "confirm"}
        /\ pc = "done" =>
              /\ result.status \in {"err", "panic"}
              /\ ReadsResolved =>
                    result = IF IsNone(RulesOf(args.direction, firewall.val))
                             THEN Panic("No rules available")
                             ELSE Panic("Unable to find firewall rule")

C28_Witness ==
    /\ cmd = "firewall" /\ LocatedLacksRule /\ pc = "done"
    /\ IsSome(RulesOf(args.direction, firewall.val))
    /\ Len(RulesOf(args.direction, firewall.val).val) > 0
    /\ IsSome(args.droplets)
    /\ result = Panic("Unable to find firewall rule")


\* C29: in a firewall run, a get_firewall after the first is made right
\* after an add_firewall_rule that returned Ok, by the name of the firewall
\* fetched at Locate, and is the last call of the run, so that there is one
\* re-fetch at most; a run that is over after an add that returned Ok has
\* made it.  When the re-fetch returned no firewall the run ends in a panic;
\* when it returned one, the run returns Ok with that firewall, whatever the
\* firewall fetched at Locate was.
C29_ConfirmRefetch ==
    cmd = "firewall" =>
        /\ \A i \in 2..Len(calls) :
              /\ calls[i].call = "get_firewall" =>
                    /\ calls[i - 1].call = "add_firewall_rule"
                    /\ calls[i - 1].outcome = "ok"
                    /\ calls[i].payload = firewall.val.name
                    /\ i = Len(calls)
                    /\ pc = "done"
              /\ (calls[i - 1].call = "add_firewall_rule" /\ calls[i - 1].outcome = "ok") =>
                    calls[i].call = "get_firewall"
        /\ (pc = "done" /\ Len(calls) > 0 /\ Last(calls).outcome = "ok") =>
              Last(calls).call # "add_firewall_rule"
        /\ NumCalls(1, "get_firewall") <= 2
        /\ Refetched =>
              LET found == Last(calls).resp
              IN  /\ found = Find(firewalls, firewall.val.name)
                  /\ IsNone(found) => result = Panic("Unable to find firewall after modifying!")
                  /\ IsSome(found) => result = Ok(found.val)

C29_Witness ==
    /\ Refetched /\ ~args.dry_run
    /\ NumCalls(1, "get_firewall") = 2
    /\ result = Ok(Last(calls).resp.val)
    /\ result.value # firewall.val
    /\ Contains(RulesOf(args.direction, result.value).val, replacement.val.new)


\* The write call of the current invocation: it is the last call.
DryWrite ==
    /\ cmd = "dns" /\ args.dry_run /\ pc = "done"
    /\ Len(calls) > 0
    /\ Last(calls).run = run
    /\ Last(calls).call \in {"update_record", "create_record"}

\* C30: in a dry run, update_record and create_record send no request,
\* leave the zone as it was and return Ok with a record whose ttl is the
\* requested ttl, whose id is 0 and whose type, name and data are empty;
\* the line run_dns writes after the write formats no field of that record.
C30_DryRunPlaceholderUnread ==
    DryWrite =>
        /\ Last(calls).http = "-" /\ Last(calls).outcome = "ok"
        /\ zone = before[run].zone
        /\ result = Ok(DomainRecord(0, "", "", "", args.ttl))
        /\ Last(log).run = run
        /\ Last(log).shown = <<>>


\* The page whose GET failed in a traversal that is over (0 when none did).
FailedPage == IF ret.status = "err" THEN Last(requests) ELSE 0

\* C31: over every page chain and name, with the GET of any one page failing
\* or none, get_domain's own loop ends with the page requests and the return
\* value that get_object_by_name with the exact-name predicate has for the
\* same chain, name and failing page, and on its way it has made a prefix of
\* those requests; the loop of get_object_by_name itself ends with them too.
C31_GetDomainIsFind ==
    (cmd = "page" /\ op \in {"get_domain", "get_object_by_name"}) =>
        /\ ret # Running =>
              [requests |-> requests, ret |-> ret] = ObjectByName(chain, name, FailedPage)
        /\ ret = Running =>
              LET all == ObjectByName(chain, name, 0).requests
              IN  /\ Len(requests) <= Len(all)
                  /\ requests = SubSeq(all, 1, Len(requests))

C31_Witness ==
    /\ cmd = "page" /\ op = "get_domain"
    /\ Len(chain) = 3
    /\ Find(chain[1].items, name) = None /\ Len(chain[1].items) > 0
    /\ Len(chain[2].items) = 2 /\ chain[2].items[2].name = name
    /\ chain[2].items[1].name # name
    /\ ret = Ok(Some(chain[2].items[2]))
    /\ requests = <<1, 2>>


\* The positions of the collection that hold an object of the name.
Named(objs, n) == {j \in 1..Len(objs) : objs[j].name = n}

\* C32: once the new rule is computed, every requested droplet name, at each
\* of its occurrences in the request list, is resolved to the id of the
\* object that comes last in the fetched collection among those of that
\* name.
C32_LastOfNameWins ==
    (cmd = "firewall" /\ IsSome(replacement) /\ IsSome(args.droplets)) =>
        /\ IsSome(ids.droplet_ids)
        /\ Len(ids.droplet_ids.val) = Len(args.droplets.val)
        /\ \A k \in 1..Len(args.droplets.val) :
              \E j \in Named(droplets, args.droplets.val[k]) :
                 /\ \A h \in Named(droplets, args.droplets.val[k]) : h <= j
                 /\ ids.droplet_ids.val[k] = droplets[j].id

C32_Witness ==
    /\ cmd = "firewall" /\ IsSome(replacement)
    /\ args.droplets = Some(<<"a", "a">>)
    /\ Named(droplets, "a") = {1, 3}
    /\ NewTarget.droplet_ids = Some(<<3, 3>>)


\* The positions of the rule list that hold a rule of the requested port
\* and protocol.
KeyAt(rules) ==
    {i \in 1..Len(rules) : rules[i].ports = args.port /\ rules[i].protocol = args.protocol}

\* C33: when the requested direction of the fetched firewall holds several
\* rules of the requested port and protocol, the old rule is the one at the
\* least position among them; every delete_firewall_rule call carries that
\* rule and no other, the new rule has its protocol, ports and tags, and
\* after the delete was applied the other rules of the port and protocol
\* are still in the firewall.
C33_FirstOfSeveralReplaced ==
    (cmd = "firewall" /\ IsSome(replacement)
        /\ Cardinality(KeyAt(RulesOf(args.direction, firewall.val).val)) > 1) =>
        LET fetched == RulesOf(args.direction, firewall.val).val
            first == CHOOSE i \in KeyAt(fetched) : \A j \in KeyAt(fetched) : i <= j
            old == replacement.val.old
            new == replacement.val.new
        IN  /\ old = fetched[first]
            /\ new.protocol = old.protocol /\ new.ports = old.ports
            /\ NewTarget.tags = OldTarget.tags
            /\ \A i \in 1..Len(calls) :
                  calls[i].call = "delete_firewall_rule" =>
                      SlotOf(args.direction, calls[i].payload) = Some(<<fetched[first]>>)
            /\ InWindow =>
                  RulesOf(args.direction, RemoteFirewall).val
                      = SelectSeq(fetched, LAMBDA r : r # fetched[first])

C33_Witness ==
    /\ cmd = "firewall" /\ ~args.dry_run /\ result.status = "ok"
    /\ LET fetched == RulesOf(args.direction, firewall.val).val
       IN  /\ KeyAt(fetched) = {1, 2}
           /\ IsNone(TargetOf(args.direction, fetched[1]).tags)
           /\ IsSome(TargetOf(args.direction, fetched[2]).tags)
           /\ replacement.val.old = fetched[1]
           /\ IsNone(NewTarget.tags)
           /\ Contains(RulesOf(args.direction, result.value).val, fetched[2])


\* C34: when the record get_record returned holds data that does not parse
\* as an address, the invocation is over with the AddrParseErr error,
\* get_record is its last call, neither update_record nor create_record was
\* called in it and the zone is as the invocation found it.
C34_UnparsableDataFails ==
    (cmd = "dns" /\ IsSome(record) /\ ParseIp(record.val.data).status = "err") =>
        /\ pc = "done"
        /\ result = Err("AddrParseErr")
        /\ Last(calls).run = run /\ Last(calls).call = "get_record"
        /\ Mutations(run) = 0
        /\ zone = before[run].zone

C34_Witness ==
    /\ cmd = "dns" /\ ~args.dry_run /\ pc = "done"
    /\ IsSome(record) /\ record.val.data = "bogus"
    /\ Len(zone) = 2
    /\ result = Err("AddrParseErr")


\* The rules of the list that are not of the requested port and protocol.
OffKey(rules) ==
    SelectSeq(rules, LAMBDA r : ~(r.ports = args.port /\ r.protocol = args.protocol))

\* C35: a firewall run that is not a dry run, found one rule of the
\* requested port and protocol in the requested direction and returned Ok
\* leaves the remote firewall, which is the firewall it returns, with the
\* computed new rule as the only rule of that port and protocol in the
\* requested direction, the other rules of that direction as they were
\* fetched and in their order, and the other direction as it was fetched.
C35_OnlyTargetRuleChanged ==
    (cmd = "firewall" /\ ~args.dry_run /\ result.status = "ok"
        /\ KeyCount(RulesOf(args.direction, firewall.val).val) = 1) =>
        LET fetched == RulesOf(args.direction, firewall.val).val
            final == RulesOf(args.direction, result.value).val
        IN  /\ result.value = RemoteFirewall
            /\ KeyCount(final) = 1
            /\ \A i \in KeyAt(final) : final[i] = replacement.val.new
            /\ OffKey(final) = OffKey(fetched)
            /\ Len(final) = Len(fetched)
            /\ RulesOf(Other(args.direction), result.value)
                  = RulesOf(Other(args.direction), firewall.val)
            /\ result.value.id = firewall.val.id /\ result.value.name = firewall.val.name

C35_Witness ==
    /\ cmd = "firewall" /\ ~args.dry_run /\ result.status = "ok"
    /\ LET fetched == RulesOf(args.direction, firewall.val).val
           final == RulesOf(args.direction, result.value).val
       IN  /\ Len(fetched) = 2 /\ KeyAt(fetched) = {1}
           /\ final = <<fetched[2], replacement.val.new>>
           /\ replacement.val.new # replacement.val.old
           /\ IsSome(RulesOf(Other(args.direction), result.value))


\* C36: in every invocation of the DNS subcommand, update_record and
\* create_record are called once at most between them, whether the call
\* succeeds or fails; a write is the call right after the get_record of its
\* invocation, update_record when get_record returned a record and
\* create_record when it returned none, and nothing is called after it.
C36_OneWritePerRun ==
    cmd = "dns" =>
        /\ \A r \in 1..run : Mutations(r) <= 1
        /\ \A i \in 1..Len(calls) :
              calls[i].call \in {"update_record", "create_record"} =>
                  /\ i > 1
                  /\ calls[i - 1].run = calls[i].run
                  /\ calls[i - 1].call = "get_record" /\ calls[i - 1].outcome = "ok"
                  /\ calls[i].call = "update_record" <=> IsSome(calls[i - 1].resp)
                  /\ calls[i].call = "create_record" <=> IsNone(calls[i - 1].resp)
                  /\ i < Len(calls) => calls[i + 1].run > calls[i].run

C36_Witness ==
    /\ cmd = "dns" /\ ~args.dry_run /\ run = 2 /\ pc = "done"
    /\ NumCalls(1, "create_record") = 1 /\ NumCalls(1, "update_record") = 0
    /\ NumCalls(2, "update_record") = 1 /\ NumCalls(2, "create_record") = 0


\* The invocation is over with Ok.
DnsSucceeded == cmd = "dns" /\ pc = "done" /\ result.status = "ok"

\* C37 as stated: every invocation of the DNS subcommand that returns Ok,
\* dry run or not, returns a record whose data is the desired address.
C37_Original ==
    DnsSucceeded => ParseIp(result.value.data) = Ok(args.ip)

\* C37: an invocation of the DNS subcommand that returns Ok returns a record
\* whose data parses to the desired address, unless it is a dry run that
\* went to update_record or create_record: that one returns the placeholder,
\* whose data is empty and parses to no address.
C37_DataIsDesiredUnlessDryWrite ==
    DnsSucceeded =>
        IF DryWrite
        THEN /\ result.value.data = ""
             /\ ParseIp(result.value.data).status = "err"
        ELSE ParseIp(result.value.data) = Ok(args.ip)

C37_Witness ==
    /\ DnsSucceeded /\ DryWrite
    /\ Last(calls).call = "update_record"
    /\ result.value.data = ""


\* The calls of the run of a given client method.
CallsOf(c) == {i \in 1..Len(calls) : calls[i].call = c}

\* C38: a firewall run that has computed its pair of rules and has left the
\* delete step, dry run or not and also when the new rule is the old rule,
\* has called delete_firewall_rule exactly once; add_firewall_rule was
\* called only if that delete returned Ok, once at most, and exactly once
\* when the run has left the add step after it.
C38_NoNoOpPath ==
    (cmd = "firewall" /\ IsSome(replacement) /\ pc # "delete_firewall_rule") =>
        /\ Cardinality(CallsOf("delete_firewall_rule")) = 1
        /\ Cardinality(CallsOf("add_firewall_rule")) <= 1
        /\ \A i \in CallsOf("delete_firewall_rule") :
              /\ calls[i].outcome # "ok" =>
                    /\ CallsOf("add_firewall_rule") = {}
                    /\ pc = "done" /\ i = Len(calls)
              /\ (calls[i].outcome = "ok" /\ pc # "add_firewall_rule") =>
                    CallsOf("add_firewall_rule") = {i + 1}

C38_Witness ==
    /\ cmd = "firewall" /\ ~args.dry_run /\ result.status = "ok"
    /\ replacement.val.old = replacement.val.new
    /\ Cardinality(CallsOf("delete_firewall_rule")) = 1
    /\ Cardinality(CallsOf("add_firewall_rule")) = 1
    /\ result.value = firewall.val


\* The traversal has returned, or the invocation is over.
Terminated ==
    \/ cmd = "page" /\ ret # Running
    \/ cmd \in {"dns", "firewall"} /\ pc = "done"

\* No request is made twice: a traversal requests each page of the chain
\* once at most and in order, an invocation of the DNS subcommand calls each
\* client method once at most, and a firewall run calls get_firewall twice
\* at most and every other client method once at most.
NoRetry ==
    /\ cmd = "page" => requests = Upto(Len(requests)) /\ Len(requests) <= Len(chain)
    /\ cmd = "dns" =>
          \A r \in 1..run :
              \A c \in {"get_domain", "get_record", "update_record", "create_record"} :
                  NumCalls(r, c) <= 1
    /\ cmd = "firewall" =>
          /\ NumCalls(1, "get_firewall") <= 2
          /\ \A c \in Listings \cup RuleChanges : NumCalls(1, c) <= 1

\* C39: over every finite page chain get_all_objects, get_object_by_name
\* and get_domain return, and every invocation of the DNS subcommand and
\* every firewall run comes to its end, with Ok, an error or a panic; on the
\* way no request is made twice.
C39_Terminates ==
    /\ []NoRetry
    /\ ~Terminated ~> Terminated

C39_Witness ==
    /\ cmd = "firewall" /\ pc = "done" /\ ~args.dry_run
    /\ result.status = "ok"
    /\ Len(calls) = 7

====
